---- MODULE Spec2Model ----
(***************************************************************************)
(* A model of helm2cue (cue-exp/helm2cue-trybot): the converter from Go    *)
(* text/template (Helm) templates to CUE.                                  *)
(*                                                                         *)
(* The module holds several specifications over one set of variables:     *)
(*   SpecEmit  - the AST walker and the YAML frame stack of the emitter    *)
(*               (convert.go: emitTextNode, emitActionExpr, processIf,     *)
(*               processWith, processRange, closeBlocksTo).                *)
(*   SpecSteps - the walker of SpecEmit, recording its last step           *)
(*   SpecModes - the deferred states of the emitter (pending key, pending  *)
(*               action, deferred key-value, inline and flow accumulation) *)
(*   SpecLines - the walker of SpecEmit, recording for the last text line *)
(*               the frame stack before and after the frames are closed.   *)
(*   SpecExpr  - the conversion of one action, condition, with or range    *)
(*               pipeline to a CUE expression (convert.go: actionToCUE,    *)
(*               nodeToExpr, convertSubPipe, conditionPipeToExpr, ...).    *)
(*   SpecHelpers - parseHelpers over a sequence of helper files.           *)
(*   SpecChart - ConvertChart and Convert: the loop over the templates     *)
(*               (documents), convertStructured on the shared tree set,    *)
(*               the helper declarations and the files written.            *)
(*   SpecAssemble - assembleSingleFile run twice on one conversion result. *)
(*   SpecNames - the CUE names convertStructured gives the helpers.       *)
(*   SpecElse - processNodes over root lists with if/else blocks.          *)
(*   SpecMerge - the helper declarations of merged documents/templates.   *)
(*   SpecCond - the guards pipeToCUECondition makes of and/or/not.         *)
(*   SpecSentinel - configured pipeline functions whose Convert returns   *)
(*               the empty string, in actionToCUE and convertSubPipe.      *)
(*   SpecPrintf - convertPrintf over format strings and value arguments.  *)
(*   SpecInclude - include calls with a context-object argument: the     *)
(*               helper bodies converted in sorted order, then the         *)
(*               template (convertStructured, propagateHelperArgRefs).     *)
(*   SpecDefault - `default v FIELD` and `FIELD | default v` in           *)
(*               actionToCUE, with and without a rebound dot.              *)
(*   SpecWith - processWith: the dot binding pushed for the body and      *)
(*               popped before the else branch, with nested with blocks.   *)
(*   SpecVars - localVars over variable declarations in nested if, with   *)
(*               and range blocks (processNode, processWith,               *)
(*               processRange).                                            *)
(*   SpecGuards - processNodes and detectTopLevelIf over root node lists. *)
(*   SpecFields - the field references, defaults, required and range       *)
(*               references a conversion records, merged over documents,   *)
(*               and the schema buildFieldTree / emitFieldNodes make.      *)
(* Variables a specification does not use keep their initial value.       *)
(***************************************************************************)
EXTENDS Integers, Sequences, FiniteSets, TLC

VARIABLES
    c,      \* the converter: frame stack, emitted brackets, emitter state
    ctl,    \* the Go call stack of processIf/processWith/processRange
    nodes,  \* number of template nodes walked so far
    phase,  \* "walk" while processNodes runs, "done" after convertStructured returned
    config, \* the Config the converter runs under (CoreFuncs, Funcs, RootExpr)
    input,  \* the pipeline under conversion, its position and the rangeVarStack
    result, \* what the conversion of input returned: an expression or an error
    ph,     \* parseHelpers: its arguments, its loop index and its error
    treeSet,         \* the shared map from template name to parsed tree
    helperFileNames, \* the names parseHelpers gave to the helper files
    job,    \* ConvertChart / Convert: templates, loop index, results, warnings, output
    docs    \* per document: the fieldRefs, defaults, requiredRefs and rangeRefs recorded

vars == <<c, ctl, nodes, phase, config, input, result, ph, treeSet, helperFileNames, job, docs>>
emitVars == <<c, ctl, nodes, phase>>
exprVars == <<config, input, result>>
treeVars == <<treeSet, helperFileNames>>
\* what each specification leaves alone
nonEmitVars == <<exprVars, ph, treeVars, job, docs>>
nonExprVars == <<emitVars, ph, treeVars, job, docs>>
nonHelpersVars == <<emitVars, exprVars, job, docs>>
nonChartVars == <<emitVars, exprVars, ph, docs>>
nonFieldsVars == <<emitVars, exprVars, ph, treeVars, job>>

\* Values of the variables of a specification that is not running.
NoConfig == [CoreFuncs |-> [isNil |-> TRUE, names |-> {}], Funcs |-> {}, RootExpr |-> ""]
NoInput == [pos |-> "none", pipe |-> <<>>, rangeVarStack |-> <<>>]
NoResult == [ok |-> FALSE, msg |-> "not converted", names |-> {}, dot |-> FALSE]
IdleExpr == config = NoConfig /\ input = NoInput /\ result = NoResult
NoHelpers == [helpers |-> <<>>, allowDup |-> FALSE, i |-> 0, err |-> "", done |-> FALSE]
NoJob == [api |-> "none", templates |-> <<>>, valuesYaml |-> FALSE, i |-> 0, results |-> <<>>,
          warnings |-> <<>>, err |-> "", files |-> {}, decl |-> <<>>, done |-> FALSE]
IdleHelpers == ph = NoHelpers
IdleTrees == treeSet = <<>> /\ helperFileNames = {}
IdleJob == job = NoJob /\ docs = <<>>

(***************************************************************************)
(* Bounds of the emitter model.                                            *)
(***************************************************************************)
MaxNodes == 5    \* template nodes per template (text, action, if/with/range)
MaxLines == 1    \* non-empty lines per text node
MaxDepth == 2    \* YAML indents are 0, 2, .., 2*MaxDepth
MaxNest == 2     \* if/with/range blocks nested in each other

Indents == {2 * i : i \in 0..MaxDepth}

(***************************************************************************)
(* Text lines.  A non-empty line of a text node is abstracted to its YAML  *)
(* indent and its shape:                                                   *)
(*   "kv"      key: value          "key"     key:   (or trailing "key: ")  *)
(*   "item"    - scalar            "itemkv"  - key: value                  *)
(*   "itemkey" - key:              "dash"    "- " (value from next node)   *)
(* A text node is a sequence of lines and a flag nl: whether the text ends *)
(* with a newline.  Only a text that opens a pending key or pending list   *)
(* item may lack the final newline, so inline and flow accumulation        *)
(* (inlineParts, flowParts) stay nil throughout.                           *)
(***************************************************************************)
LineKinds == {"kv", "key", "item", "itemkv", "itemkey", "dash"}
Lines == [indent : Indents, kind : LineKinds]
IsItem(kind) == kind \in {"item", "itemkv", "itemkey", "dash"}
OpensPending == {"key", "itemkey", "dash"}

TextNodes ==
    {t \in [lines : UNION {[1..k -> Lines] : k \in 1..MaxLines}, nl : BOOLEAN] :
        t.nl \/ t.lines[Len(t.lines)].kind \in OpensPending}

stateNormal == "normal"
statePendingKey == "pendingKey"

NoDeferred == [on |-> FALSE, indent |-> 0, cueInd |-> 0]

Frame(y, ci, l, li) ==
    [yamlIndent |-> y, cueIndent |-> ci, isList |-> l, isListItem |-> li]

(***************************************************************************)
(* The converter after construction (convertStructured, lines 361-377).   *)
(* out holds what is left of the brackets written to c.out ("{" "[" "}"    *)
(* "]", with "}," counted as "}") once every closer has been cancelled     *)
(* against the opener it matches: the text written so far is balanced      *)
(* exactly when out is empty.                                              *)
(***************************************************************************)
NewConverter ==
    [stack |-> <<>>, out |-> <<>>, state |-> stateNormal,
     pendingKey |-> "", pendingKeyInd |-> 0,
     deferredKV |-> NoDeferred, pendingActionExpr |-> "",
     inRangeBody |-> FALSE]

Top(s) == s[Len(s)]
Pop(s) == SubSeq(s, 1, Len(s) - 1)
Opener(tok) == IF tok = "}" THEN "{" ELSE "["

WriteString(out, tok) ==
    IF tok \in {"}", "]"} /\ out # <<>> /\ Top(out) = Opener(tok)
    THEN Pop(out)
    ELSE Append(out, tok)

Write(cv, tok) == [cv EXCEPT !.out = WriteString(@, tok)]

currentCUEIndent(cv) ==
    IF cv.stack = <<>> THEN 0 ELSE Top(cv.stack).cueIndent

closeOneFrame(cv) ==
    IF cv.stack = <<>> THEN cv
    ELSE LET top == Top(cv.stack)
         IN  [Write(cv, IF top.isList THEN "]" ELSE "}") EXCEPT !.stack = Pop(@)]

RECURSIVE closeBlocksTo(_, _)
closeBlocksTo(cv, indent) ==
    IF cv.stack = <<>> THEN cv
    ELSE IF indent >= 0 /\ Top(cv.stack).yamlIndent <= indent THEN cv
    ELSE closeBlocksTo(closeOneFrame(cv), indent)

flushPendingAction(cv) == [cv EXCEPT !.pendingActionExpr = ""]

flushDeferred(cv) == [cv EXCEPT !.deferredKV = NoDeferred]

resolveDeferredAsBlock(cv, childYamlIndent) ==
    IF ~cv.deferredKV.on THEN cv
    ELSE LET d == cv.deferredKV
         IN  [Write(cv, "{") EXCEPT
                !.deferredKV = NoDeferred,
                !.stack = Append(@, Frame(childYamlIndent, d.cueInd + 1, FALSE, FALSE))]

openPendingAsList(cv, childYamlIndent) ==
    [Write(cv, "[") EXCEPT
        !.stack = Append(@, Frame(childYamlIndent, currentCUEIndent(cv) + 1, TRUE, FALSE)),
        !.state = stateNormal, !.pendingKey = ""]

openPendingAsMapping(cv, childYamlIndent) ==
    [Write(cv, "{") EXCEPT
        !.stack = Append(@, Frame(childYamlIndent, currentCUEIndent(cv) + 1, FALSE, FALSE)),
        !.state = stateNormal, !.pendingKey = ""]

SetPending(cv, key, ind) ==
    [cv EXCEPT !.state = statePendingKey, !.pendingKey = key, !.pendingKeyInd = ind]

processRangeListItem(cv, kind, yamlIndent, isLastLine) ==
    CASE kind = "itemkey" -> SetPending(cv, "k", yamlIndent + 2)
      [] kind = "dash" /\ isLastLine -> SetPending(cv, "", yamlIndent)
      [] OTHER -> cv

processListItem(cv, kind, yamlIndent, cueInd, isLastLine) ==
    LET item == Frame(yamlIndent + 2, cueInd + 1, FALSE, TRUE)
        opened == [Write(cv, "{") EXCEPT !.stack = Append(@, item)]
    IN  IF cv.inRangeBody THEN processRangeListItem(cv, kind, yamlIndent, isLastLine)
        ELSE CASE kind = "itemkv" -> opened
               [] kind = "itemkey" -> SetPending(opened, "k", yamlIndent + 2)
               [] kind = "dash" /\ isLastLine -> SetPending(cv, "", yamlIndent)
               [] OTHER -> cv

\* the deferred key-value is always written as a leaf
resolveAsLeaf(cv, y) == flushDeferred(flushPendingAction(cv))

\* emitTextNode, lines 1365-1372: the pending action is flushed and the
\* deferred key-value resolved by the indent of the line.
resolveForLine(cv, y) ==
    LET c1 == flushPendingAction(cv)
    IN  IF c1.deferredKV.on
        THEN IF y > c1.deferredKV.indent
             THEN resolveDeferredAsBlock(c1, y)
             ELSE flushDeferred(c1)
        ELSE c1

\* every frame at or above the indent of the line is closed
closeAtOrAbove(cv, line) ==
    LET c3 == closeBlocksTo(cv, line.indent - 1)
    IN  IF line.indent = 0 THEN closeBlocksTo(cv, -1) ELSE c3
\* emitTextNode, lines 1374-1385: the frames deeper than the line are
\* closed, and a list at the indent of a line that is no list item
closeForLine(cv, line) ==
    LET c3 == closeBlocksTo(cv, line.indent)
    IN  IF c3.stack # <<>> /\ Top(c3.stack).isList
           /\ Top(c3.stack).yamlIndent = line.indent /\ ~IsItem(line.kind)
        THEN closeOneFrame(c3) ELSE c3

\* One iteration of the line loop of emitTextNode (lines 1324-1468).
emitLine(cv, line, isLastLine) ==
    LET y  == line.indent
        c4 == closeForLine(resolveForLine(cv, y), line)
        c5 == IF c4.state = statePendingKey
              THEN IF IsItem(line.kind) THEN openPendingAsList(c4, y)
                   ELSE openPendingAsMapping(c4, y)
              ELSE c4
        cueInd == currentCUEIndent(c5)
    IN  CASE IsItem(line.kind) -> processListItem(c5, line.kind, y, cueInd, isLastLine)
          [] line.kind = "key" -> SetPending(c5, "k", y)
          [] OTHER -> c5

RECURSIVE emitLines(_, _, _)
emitLines(cv, t, i) ==
    IF i > Len(t.lines) THEN cv
    ELSE emitLines(emitLine(cv, t.lines[i], i = Len(t.lines) /\ ~t.nl), t, i + 1)

emitTextNode(cv, t) == emitLines(cv, t, 1)

emitActionExpr(cv) ==
    LET c1 == flushDeferred(flushPendingAction(cv))
    IN  IF c1.state = statePendingKey
        THEN IF c1.pendingKey = ""
             THEN [c1 EXCEPT !.state = stateNormal]
             ELSE [c1 EXCEPT !.deferredKV = [on |-> TRUE, indent |-> c1.pendingKeyInd,
                                             cueInd |-> currentCUEIndent(c1)],
                             !.state = stateNormal, !.pendingKey = ""]
        ELSE [c1 EXCEPT !.pendingActionExpr = "e"]

(***************************************************************************)
(* processIf / processWith / processRange.  The handlers recurse into the  *)
(* body between their "open" and "close" halves; ctl records the locals    *)
(* of each running handler.  bodyIndent and isList are what peekBodyIndent *)
(* and isListBody read from the body's own text nodes before the body is   *)
(* walked: they are chosen when the block opens and the first text line    *)
(* of the body has to agree with them (seenText).                          *)
(***************************************************************************)
Max(a, b) == IF a >= b THEN a ELSE b

\* lines 1878-1884 (processIf), 2017-2023 (processWith), 2257-2263
\* (processRange): the deferred key-value is resolved by the indent of the body
resolveForBody(cv, bodyIndent) ==
    IF cv.deferredKV.on
    THEN IF bodyIndent >= 0 /\ bodyIndent > cv.deferredKV.indent
         THEN resolveDeferredAsBlock(cv, bodyIndent)
         ELSE flushDeferred(cv)
    ELSE cv

\* the rest of those lines: the pending key opens and deeper frames close
resolveBeforeBody(cv, bodyIndent, isList) ==
    LET c1 == resolveForBody(cv, bodyIndent)
        c2 == IF c1.state = statePendingKey
              THEN IF c1.pendingKey = "" THEN [c1 EXCEPT !.state = stateNormal]
                   ELSE IF isList THEN openPendingAsList(c1, bodyIndent)
                   ELSE openPendingAsMapping(c1,
                            IF bodyIndent < 0 THEN c1.pendingKeyInd + 2 ELSE bodyIndent)
              ELSE c1
    IN  IF bodyIndent >= 0 THEN closeBlocksTo(c2, bodyIndent) ELSE c2

\* The body-context frame: it is pushed without writing an opener.
bodyCtxFrame(cueInd, inList, bodyIndent, isList) ==
    Frame(Max(bodyIndent - 1, -1), cueInd + 1, inList /\ isList, FALSE)

inListNow(cv) == cv.stack # <<>> /\ Top(cv.stack).isList

\* The guard (or comprehension) is written and the body frame pushed.
openGuard(cv, bodyIndent, isList) ==
    LET c1 == resolveBeforeBody(flushPendingAction(cv), bodyIndent, isList)
    IN  [Write(c1, "{") EXCEPT
            !.state = stateNormal,
            !.stack = Append(@, bodyCtxFrame(currentCUEIndent(c1), inListNow(c1),
                                             bodyIndent, isList))]

Handler(kind, cv, bodyIndent, isList) ==
    LET c1 == resolveBeforeBody(flushPendingAction(cv), bodyIndent, isList)
    IN  [isRange |-> kind = "range", savedStackLen |-> Len(c1.stack), savedState |-> c1.state,
         cueInd |-> currentCUEIndent(c1), inList |-> inListNow(c1),
         savedRangeBody |-> cv.inRangeBody,
         bodyIndent |-> bodyIndent, isList |-> isList,
         seenText |-> FALSE, inElse |-> FALSE]

RECURSIVE closeFramesAbove(_, _)
closeFramesAbove(cv, len) ==
    IF Len(cv.stack) > len THEN closeFramesAbove(closeOneFrame(cv), len) ELSE cv

\* After processBodyNodes: lines 1934-1946 / 1973-1983.
closeBodyFrames(cv, savedStackLen) ==
    LET c1 == closeFramesAbove(flushDeferred(flushPendingAction(cv)), savedStackLen + 1)
    IN  IF Len(c1.stack) > savedStackLen
        THEN [c1 EXCEPT !.stack = SubSeq(@, 1, savedStackLen)]
        ELSE c1

\* lines 1934-1950: the body is closed, the state restored, the closer written.
closeBody(cv, h) ==
    Write([closeBodyFrames(cv, h.savedStackLen) EXCEPT
              !.state = h.savedState, !.inRangeBody = h.savedRangeBody], "}")

\* lines 1953-1968: the else guard is written and its body frame pushed.
openElse(cv, h, elseBodyIndent, elseIsList) ==
    [Write(cv, "{") EXCEPT
        !.stack = Append(@, bodyCtxFrame(h.cueInd, h.inList, elseBodyIndent, elseIsList))]

\* lines 1973-1986: the else body is closed (the state is not restored here).
closeElse(cv, h) == Write(closeBodyFrames(cv, h.savedStackLen), "}")

BodyShapes == {b \in [indent : Indents \cup {-1}, isList : BOOLEAN] :
                  b.indent = -1 => ~b.isList}

\* The first text line of a body is the one peekBodyIndent/isListBody saw.
AgreesWithPeek(t) ==
    IF ctl = <<>> THEN TRUE
    ELSE IF Top(ctl).seenText THEN TRUE
    ELSE /\ Top(ctl).bodyIndent = t.lines[1].indent
         /\ Top(ctl).isList = IsItem(t.lines[1].kind)

SawText(stk) ==
    IF stk = <<>> THEN stk ELSE [stk EXCEPT ![Len(stk)].seenText = TRUE]

PeekSatisfied == IF Top(ctl).bodyIndent = -1 THEN TRUE ELSE Top(ctl).seenText

(***************************************************************************)
(* Actions of the walker (processNode, lines 1738-1810).                   *)
(***************************************************************************)
InitEmit ==
    /\ c = NewConverter
    /\ ctl = <<>>
    /\ nodes = 0
    /\ phase = "walk"
    /\ IdleExpr /\ IdleHelpers /\ IdleTrees /\ IdleJob

\* case *parse.TextNode.  Two text nodes follow each other when a comment
\* node stands between them: case *parse.CommentNode (lines 1792-1805) only
\* writes comment lines and leaves the emitter state alone.
EmitTextNode ==
    /\ phase = "walk" /\ nodes < MaxNodes
    /\ \E t \in TextNodes :
        /\ AgreesWithPeek(t)
        /\ c' = emitTextNode(c, t)
    /\ ctl' = SawText(ctl)
    /\ nodes' = nodes + 1
    /\ UNCHANGED phase
    /\ UNCHANGED nonEmitVars

\* case *parse.ActionNode: the expression converts and is emitted.
EmitAction ==
    /\ phase = "walk" /\ nodes < MaxNodes
    /\ c' = emitActionExpr(c)
    /\ nodes' = nodes + 1
    /\ UNCHANGED <<ctl, phase>>
    /\ UNCHANGED nonEmitVars

OpenBlock(kind) ==
    /\ phase = "walk" /\ nodes < MaxNodes /\ Len(ctl) < MaxNest
    /\ \E b \in BodyShapes :
        /\ c' = [openGuard(c, b.indent, b.isList) EXCEPT
                    !.inRangeBody = IF kind = "range" THEN TRUE ELSE @]
        /\ ctl' = Append(ctl, Handler(kind, c, b.indent, b.isList))
    /\ nodes' = nodes + 1
    /\ UNCHANGED phase
    /\ UNCHANGED nonEmitVars

\* A template whose only top-level node is an if is handled by
\* detectTopLevelIf instead; here an if is never the first top-level node.
ProcessIf == (ctl # <<>> \/ nodes > 0) /\ OpenBlock("if")

ProcessWith == phase = "walk" /\ OpenBlock("with")

ProcessRange == phase = "walk" /\ OpenBlock("range")

\* The body ends and there is no else branch (or the block is a range,
\* whose else list processRange ignores).
EndBody ==
    /\ phase = "walk" /\ ctl # <<>> /\ ~Top(ctl).inElse /\ PeekSatisfied
    /\ c' = closeBody(c, Top(ctl))
    /\ ctl' = Pop(ctl)
    /\ UNCHANGED <<nodes, phase>>
    /\ UNCHANGED nonEmitVars

\* The body of an if/with ends and a non-empty else list follows.
ElseBranch ==
    /\ phase = "walk" /\ ctl # <<>> /\ ~Top(ctl).inElse /\ PeekSatisfied
    /\ ~Top(ctl).isRange
    /\ \E b \in BodyShapes :
        /\ c' = openElse(closeBody(c, Top(ctl)), Top(ctl), b.indent, b.isList)
        /\ ctl' = [ctl EXCEPT ![Len(ctl)].inElse = TRUE,
                              ![Len(ctl)].bodyIndent = b.indent,
                              ![Len(ctl)].isList = b.isList,
                              ![Len(ctl)].seenText = FALSE]
    /\ UNCHANGED <<nodes, phase>>
    /\ UNCHANGED nonEmitVars

EndElse ==
    /\ phase = "walk" /\ ctl # <<>> /\ Top(ctl).inElse /\ PeekSatisfied
    /\ c' = closeElse(c, Top(ctl))
    /\ ctl' = Pop(ctl)
    /\ UNCHANGED <<nodes, phase>>
    /\ UNCHANGED nonEmitVars

\* convertStructured, lines 411-415, after processNodes returned nil.
Finish ==
    /\ phase = "walk" /\ ctl = <<>>
    /\ c' = closeBlocksTo(flushDeferred(flushPendingAction(c)), -1)
    /\ phase' = "done"
    /\ UNCHANGED <<ctl, nodes>>
    /\ UNCHANGED nonEmitVars

NextEmit ==
    \/ EmitTextNode \/ EmitAction
    \/ ProcessIf \/ ProcessWith \/ ProcessRange
    \/ EndBody \/ ElseBranch \/ EndElse
    \/ Finish

SpecEmit == InitEmit /\ [][NextEmit]_vars

(***************************************************************************)
(* Bracket balance of the emitted body.                                    *)
(***************************************************************************)
Balanced(out) == out = <<>>

\* C1: once the conversion of a template has succeeded, the emitted body is
\* bracket-balanced: every opener has exactly one matching closer after it
\* and no closer is written without an opener.
C1_FrameBalance == phase = "done" => Balanced(c.out)

(***************************************************************************)
(* SpecExpr: conversion of a pipeline to a CUE expression.                 *)
(*                                                                         *)
(* A template node (parse.Node) is a record [t, cmds]: a field reference   *)
(* (.Values.x), the bare dot, a string literal, or a parenthesised pipe    *)
(* with its commands.  A command (parse.CommandNode) is [fn, val]: fn is   *)
(* the identifier in Args[0] ("" when the command is a single operand) and *)
(* val its operand (NoArg when the identifier stands alone).  The literal  *)
(* arguments a function needs next to its operand are implied, so that     *)
(* every call is well-formed in arity:                                     *)
(*   printf "%s" VAL      print VAL           default "d" VAL              *)
(*   required "m" VAL     include "name" VAL  ternary "a" "b" VAL          *)
(*   list VAL             dict "k" VAL        get VAL "k"                  *)
(*   coalesce VAL "x"     min 1 VAL           max 1 VAL                    *)
(*   tpl VAL .            merge VAL VAL       empty VAL                    *)
(*   hasKey VAL "k"       semverCompare ">=1" VAL                          *)
(*   not VAL              eq VAL "x"          upper VAL       toYaml VAL   *)
(* and as a later stage:  | default "d"   | required "m"   | tpl .   | f   *)
(***************************************************************************)
IdleEmit == c = NewConverter /\ ctl = <<>> /\ nodes = 0 /\ phase = "idle"

MaxStages == 1   \* pipeline stages after the first command

\* The names the converter handles itself and gates by isCoreFunc.
CoreFuncNames ==
    {"default", "required", "include", "ternary", "list", "dict", "get",
     "coalesce", "min", "max", "tpl", "merge", "mergeOverwrite", "printf",
     "print", "empty", "hasKey", "semverCompare"}
\* text/template builtins that conditionPipeToExpr handles without a gate.
Builtins == {"not", "eq"}
\* Two entries of HelmConfig().Funcs: upper has a Convert function,
\* toYaml is {Passthrough: true}.
HelmFuncs == {"upper", "toYaml"}
\* a function neither the core nor Funcs knows
UnknownFuncs == {"lookupX"}
FuncNames == CoreFuncNames \cup Builtins \cup HelmFuncs \cup UnknownFuncs
\* names that occur as a later stage or as a stage of a sub-pipe
StageNames == {"default", "required", "tpl", "include", "upper", "toYaml", "lookupX"}

Leaf(t) == [t |-> t, cmds |-> <<>>]
NoArg == Leaf("none")
PipeNode(cmds) == [t |-> "pipe", cmds |-> cmds]
Cmd(fn, val) == [fn |-> fn, val |-> val]
Operands == {Leaf("field"), Leaf("dot"), Leaf("str")}

CmdsOver(vals) ==
    {Cmd(fn, v) : fn \in FuncNames, v \in vals \cup {NoArg}} \cup {Cmd("", v) : v \in vals}
RECURSIVE StageSeqs(_)
StageSeqs(n) ==
    IF n = 0 THEN {<<>>}
    ELSE StageSeqs(n - 1) \cup
         {Append(s, Cmd(f, NoArg)) : s \in {q \in StageSeqs(n - 1) : Len(q) = n - 1}, f \in StageNames}
\* a first command, or a first command over a plain operand followed by stages
PipesOver(vals) ==
    {<<cm>> : cm \in CmdsOver(vals)} \cup
    {<<cm>> \o st : cm \in CmdsOver(Operands), st \in StageSeqs(MaxStages) \ {<<>>}}
SubPipes == {<<cm>> : cm \in CmdsOver(Operands)} \cup
            {<<Cmd("", v)>> \o st : v \in Operands, st \in StageSeqs(MaxStages) \ {<<>>}}
Pipes == PipesOver(Operands \cup {PipeNode(p) : p \in SubPipes})

\* HelmConfig (part_005 lines 140-), TemplateConfig (convert.go 98-110) and
\* two further configurations a caller can build.
HelmConfig == [CoreFuncs |-> [isNil |-> TRUE, names |-> {}], Funcs |-> HelmFuncs, RootExpr |-> ""]
TemplateConfig ==
    [CoreFuncs |-> [isNil |-> FALSE, names |-> {"printf", "print"}], Funcs |-> {}, RootExpr |-> "#values"]
Configs ==
    {HelmConfig, TemplateConfig,
     [CoreFuncs |-> [isNil |-> FALSE, names |-> {"default", "include", "tpl"}],
      Funcs |-> HelmFuncs, RootExpr |-> ""],
     [CoreFuncs |-> [isNil |-> FALSE, names |-> {}], Funcs |-> HelmFuncs, RootExpr |-> "#values"]}
Positions == {"action", "if", "with", "range"}
\* rangeVarStack holds the dot bindings of the enclosing range/with blocks
RangeVarStacks == {<<>>, <<"_range0">>}
Inputs == [pos : Positions, pipe : Pipes, rangeVarStack : RangeVarStacks]

\* A conversion returns an expression (ok) or an error.  Of an error the
\* model keeps the format string that produced it (the innermost one when
\* errors are wrapped with %w) and the function names its text contains;
\* of an expression, whether a DotNode was translated into it.
Ok(dot) == [ok |-> TRUE, msg |-> "", names |-> {}, dot |-> dot]
Errorf(msg, names) == [ok |-> FALSE, msg |-> msg, names |-> names, dot |-> FALSE]
\* fmt.Errorf("<text naming fs>: %w", err)
Wrapf(fs, r) == IF r.ok THEN r ELSE [r EXCEPT !.names = @ \cup fs]
\* two conversions in a row, the first error returns
Then(r1, r2) == IF ~r1.ok THEN r1 ELSE IF ~r2.ok THEN r2 ELSE Ok(r1.dot \/ r2.dot)

DotMsg == "{{ . }} outside range/with not supported"

\* The function names in the text of a node printed with %s.
RECURSIVE NamesInNode(_)
RECURSIVE NamesInPipe(_)
NamesInCmd(cm) == (IF cm.fn = "" THEN {} ELSE {cm.fn}) \cup NamesInNode(cm.val)
NamesInPipe(pipe) == UNION {NamesInCmd(pipe[i]) : i \in 1..Len(pipe)}
NamesInNode(n) == IF n.t = "pipe" THEN NamesInPipe(n.cmds) ELSE {}

isCoreFunc(cv, name) ==
    cv.config.CoreFuncs.isNil \/ name \in cv.config.CoreFuncs.names

\* a DotNode case that returns RootExpr without looking at it
nodeDotNoCheck(cv) == Ok(TRUE)

\* nodeToExpr, case *parse.DotNode
nodeDot(cv) ==
    IF Len(cv.rangeVarStack) > 0 THEN Ok(TRUE)
    ELSE IF cv.config.RootExpr # "" THEN Ok(TRUE)
    ELSE Errorf(DotMsg, {})

\* actionToCUE, first command with the DotNode as its only argument
actionDot(cv) ==
    IF Len(cv.rangeVarStack) > 0 THEN Ok(TRUE)
    ELSE IF cv.config.RootExpr # "" THEN Ok(TRUE)
    ELSE Errorf(DotMsg, {})

\* trackContextNode drops the error of a nested context pipe.
processContextPipe(pipe) ==
    IF Len(pipe) # 1
    THEN Errorf("include: unsupported multi-command context pipe: %s", {"include"} \cup NamesInPipe(pipe))
    ELSE IF pipe[1].fn = ""
    THEN Errorf("include: unsupported context expression: %s", {"include"} \cup NamesInPipe(pipe))
    ELSE Ok(FALSE)

\* The dot as a context is dropped (argExpr ""), not translated.
convertIncludeContext(n) ==
    CASE n.t = "dot" -> Ok(FALSE)
      [] n.t = "field" -> Ok(FALSE)
      [] n.t = "pipe" -> processContextPipe(n.cmds)
      [] OTHER -> Errorf("include: unsupported context argument %s", {"include"})

RECURSIVE nodeToExpr(_, _)
RECURSIVE convertSubPipe(_, _)

\* printf "%s" VAL
convertPrintf(cv, val) ==
    IF val = NoArg THEN Errorf("printf requires at least a format string", {"printf"})
    ELSE Wrapf({"printf"}, nodeToExpr(cv, val))

\* print VAL
convertPrint(cv, val) ==
    IF val = NoArg \/ val.t = "str" THEN Ok(FALSE)
    ELSE Wrapf({"print"}, nodeToExpr(cv, val))

\* The later commands of a pipe given to tpl are only searched for toYaml.
convertTplArg(cv, n) ==
    IF n.t # "pipe" THEN nodeToExpr(cv, n)
    ELSE LET first == n.cmds[1] IN
         IF first.fn = "toYaml"
         THEN IF first.val = NoArg
              THEN Errorf("tpl: toYaml requires an argument", {"tpl", "toYaml"})
              ELSE nodeToExpr(cv, first.val)
         ELSE IF first.fn # "" THEN nodeToExpr(cv, n)
         ELSE nodeToExpr(cv, first.val)

nodeToExpr(cv, n) ==
    CASE n.t = "field" -> Ok(FALSE)
      [] n.t = "str" -> Ok(FALSE)
      [] n.t = "dot" -> nodeDot(cv)
      [] n.t = "pipe" ->
            LET first == n.cmds[1]
                single == Len(n.cmds) = 1
            IN  IF single /\ first.fn = "printf" THEN convertPrintf(cv, first.val)
                ELSE IF single /\ first.fn = "print" THEN convertPrint(cv, first.val)
                ELSE IF single /\ first.fn = "include"
                THEN IF first.val = NoArg
                     THEN Errorf("include requires at least a template name", {"include"})
                     ELSE convertIncludeContext(first.val)
                ELSE IF single /\ first.fn = "tpl"
                THEN IF first.val = NoArg
                     THEN Errorf("tpl requires 2 arguments", {"tpl"})
                     ELSE Wrapf({"tpl"}, convertTplArg(cv, first.val))
                ELSE convertSubPipe(cv, n.cmds)
      [] OTHER -> Errorf("unsupported node type: %s", {})

convertSubPipe(cv, pipe) ==
    LET first == pipe[1]
        unsupported == Errorf("unsupported pipe node: %s", NamesInPipe(pipe))
        head ==
            IF first.fn = "" \/ first.val = NoArg
            THEN \* len(first.Args) == 1: an operand, or an identifier alone,
                 \* which nodeToExpr rejects as an unsupported node type
                 IF first.fn = "" /\ nodeToExpr(cv, first.val).ok
                 THEN nodeToExpr(cv, first.val)
                 ELSE unsupported
            ELSE IF first.fn = "default" /\ isCoreFunc(cv, first.fn)
            THEN Wrapf({"default"}, nodeToExpr(cv, first.val))
            ELSE IF first.fn \notin cv.config.Funcs THEN unsupported
            ELSE Wrapf({first.fn}, nodeToExpr(cv, first.val))
    IN  IF ~head.ok THEN head
        ELSE IF \E i \in 2..Len(pipe) : pipe[i].fn \notin cv.config.Funcs THEN unsupported
        ELSE head

RECURSIVE conditionPipeToExpr(_, _)

conditionNodeToExpr(cv, n) ==
    CASE n.t = "field" -> Ok(FALSE)
      [] n.t = "pipe" -> conditionPipeToExpr(cv, n.cmds)
      [] OTHER -> Errorf("unsupported condition node: %s", NamesInNode(n))

conditionNodeToRawExpr(cv, n) ==
    CASE n.t = "field" -> Ok(FALSE)
      [] n.t = "str" -> Ok(FALSE)
      [] n.t = "pipe" -> conditionPipeToExpr(cv, n.cmds)
      [] OTHER -> Errorf("unsupported condition node: %s", NamesInNode(n))

gatedCondition(fn) ==
    Errorf("unsupported condition function: %s (not a text/template builtin)", {fn})

\* e.g. .Values.x | default false
conditionMultiCmdPipe(cv, pipe) ==
    LET first == pipe[1]
        stage(i) ==
            IF pipe[i].fn = "default"
            THEN IF isCoreFunc(cv, "default") THEN Ok(FALSE) ELSE gatedCondition("default")
            ELSE Errorf("unsupported function in condition pipeline: %s", {pipe[i].fn})
        bad == {i \in 2..Len(pipe) : ~stage(i).ok}
        head ==
            IF first.fn # "" /\ first.val # NoArg
            THEN Errorf("unsupported multi-command condition: %s", NamesInPipe(pipe))
            ELSE IF first.fn # ""
            THEN Errorf("unsupported condition node: %s", {first.fn})
            ELSE conditionNodeToRawExpr(cv, first.val)
    IN  IF ~head.ok THEN head
        ELSE IF bad # {} THEN stage(CHOOSE i \in bad : \A j \in bad : i <= j)
        ELSE head

conditionPipeToExpr(cv, pipe) ==
    IF Len(pipe) > 1 THEN conditionMultiCmdPipe(cv, pipe)
    ELSE
    LET fn == pipe[1].fn
        val == pipe[1].val
        arity == Errorf("%s requires N arguments, got %d", {fn})
    IN  CASE fn = "" -> conditionNodeToExpr(cv, val)
          [] fn = "not" ->
                IF val = NoArg THEN arity ELSE conditionNodeToExpr(cv, val)
          [] fn = "eq" ->
                IF val = NoArg THEN arity ELSE conditionNodeToRawExpr(cv, val)
          [] fn = "empty" ->
                IF ~isCoreFunc(cv, fn) THEN gatedCondition(fn)
                ELSE IF val = NoArg THEN arity
                ELSE conditionNodeToExpr(cv, val)
          [] fn \in {"hasKey", "semverCompare"} ->
                IF ~isCoreFunc(cv, fn) THEN gatedCondition(fn)
                ELSE IF val = NoArg THEN arity
                ELSE Wrapf({fn}, conditionNodeToRawExpr(cv, val))
          [] fn = "coalesce" ->
                \* every argument goes through conditionNodeToExpr, which
                \* has no case for the string literal
                IF ~isCoreFunc(cv, fn) THEN gatedCondition(fn)
                ELSE IF val = NoArg THEN arity
                ELSE Then(conditionNodeToExpr(cv, val), conditionNodeToExpr(cv, Leaf("str")))
          [] fn = "include" ->
                IF ~isCoreFunc(cv, fn) THEN gatedCondition(fn)
                ELSE IF val = NoArg THEN arity
                ELSE convertIncludeContext(val)
          [] OTHER -> Errorf("unsupported condition function: %s", {fn})

pipeToCUECondition(cv, pipe) == conditionPipeToExpr(cv, pipe)

withPipeToRawExpr(cv, pipe) ==
    IF Len(pipe) # 1 \/ (pipe[1].fn # "" /\ pipe[1].val # NoArg)
    THEN Errorf("with: unsupported pipe shape: %s", NamesInPipe(pipe))
    ELSE IF pipe[1].fn = "" /\ pipe[1].val.t = "field" THEN Ok(FALSE)
    ELSE Errorf("with: unsupported expression for dot rebinding: %s", NamesInPipe(pipe))

\* The DotNode case looks at rangeVarStack only, not at RootExpr.
pipeToFieldExpr(cv, pipe) ==
    IF Len(pipe) # 1 \/ (pipe[1].fn # "" /\ pipe[1].val # NoArg)
    THEN Errorf("unsupported pipe: %s", NamesInPipe(pipe))
    ELSE IF pipe[1].fn = "" /\ pipe[1].val.t = "field" THEN Ok(FALSE)
    ELSE IF pipe[1].fn = "" /\ pipe[1].val.t = "dot"
    THEN IF Len(cv.rangeVarStack) > 0 THEN Ok(TRUE) ELSE Errorf(DotMsg, {})
    ELSE Errorf("unsupported node: %s", NamesInPipe(pipe))

gatedPipeline(fn) ==
    Errorf("unsupported pipeline function: %s (not a text/template builtin)", {fn})

\* One command after the first of an action's pipeline.
pipelineStage(cv, fn) ==
    IF fn \in {"default", "required", "tpl"}
    THEN IF isCoreFunc(cv, fn) THEN Ok(FALSE) ELSE gatedPipeline(fn)
    ELSE IF fn \in cv.config.Funcs THEN Ok(FALSE)
    ELSE Errorf("unsupported pipeline function: %s", {fn})

\* The first command of an action's pipeline.
firstCommand(cv, pipe) ==
    LET fn == pipe[1].fn
        val == pipe[1].val
        noExpr == Errorf("unsupported template action: %s", NamesInPipe(pipe))
        core == isCoreFunc(cv, fn)
    IN  IF fn = "" THEN
            CASE val.t = "field" -> Ok(FALSE)
              [] val.t = "dot" -> actionDot(cv)
              [] val.t = "str" -> Ok(FALSE)
              [] OTHER -> noExpr
        ELSE IF val = NoArg THEN
            IF fn \in {"list", "dict"}
            THEN IF core THEN Ok(FALSE) ELSE gatedPipeline(fn)
            ELSE noExpr
        ELSE
            CASE fn = "printf" -> convertPrintf(cv, val)
              [] fn \in CoreFuncNames \ {"printf", "print", "empty", "hasKey", "semverCompare"}
                    /\ ~core -> gatedPipeline(fn)
              [] fn = "default" ->
                    IF val.t = "field" THEN Ok(FALSE)
                    ELSE Wrapf({"default"}, nodeToExpr(cv, val))
              [] fn = "required" -> IF val.t = "field" THEN Ok(FALSE) ELSE noExpr
              [] fn = "include" -> convertIncludeContext(val)
              [] fn = "ternary" -> Wrapf({fn}, conditionNodeToExpr(cv, val))
              [] fn \in {"list", "dict", "get", "max", "min"} ->
                    Wrapf({fn}, nodeToExpr(cv, val))
              [] fn = "coalesce" ->
                    Then(Wrapf({fn}, nodeToExpr(cv, val)),
                         Wrapf({fn}, conditionNodeToExpr(cv, val)))
              [] fn = "tpl" -> Wrapf({fn}, convertTplArg(cv, val))
              [] fn \in {"merge", "mergeOverwrite"} ->
                    Errorf("function %q has no CUE equivalent: CUE uses unification", {fn})
              [] OTHER ->
                    IF fn \in cv.config.Funcs
                    THEN Wrapf({fn}, nodeToExpr(cv, val))
                    ELSE noExpr

actionToCUE(cv, pipe) ==
    LET head == firstCommand(cv, pipe)
        bad == {i \in 2..Len(pipe) : ~pipelineStage(cv, pipe[i].fn).ok}
    IN  IF ~head.ok THEN head
        ELSE IF bad # {}
        THEN pipelineStage(cv, pipe[CHOOSE i \in bad : \A j \in bad : i <= j].fn)
        ELSE head

\* The converter as far as the conversion of expressions reads it.
Conv == [config |-> config, rangeVarStack |-> input.rangeVarStack]

InitExpr ==
    /\ config \in Configs
    /\ input \in Inputs
    /\ result = NoResult
    /\ IdleEmit /\ IdleHelpers /\ IdleTrees /\ IdleJob

\* processNode, case *parse.ActionNode
ActionNode ==
    /\ input.pos = "action" /\ result = NoResult
    /\ result' = actionToCUE(Conv, input.pipe)
    /\ UNCHANGED <<config, input, nonExprVars>>

\* processIf up to the check of the condition's error
IfCondition ==
    /\ input.pos = "if" /\ result = NoResult
    /\ result' = pipeToCUECondition(Conv, input.pipe)
    /\ UNCHANGED <<config, input, nonExprVars>>

\* processWith up to the check of withPipeToRawExpr's error
WithPipe ==
    /\ input.pos = "with" /\ result = NoResult
    /\ result' = Then(pipeToCUECondition(Conv, input.pipe), withPipeToRawExpr(Conv, input.pipe))
    /\ UNCHANGED <<config, input, nonExprVars>>

\* processRange up to the check of pipeToFieldExpr's error
RangePipe ==
    /\ input.pos = "range" /\ result = NoResult
    /\ result' = pipeToFieldExpr(Conv, input.pipe)
    /\ UNCHANGED <<config, input, nonExprVars>>

NextExpr == ActionNode \/ IfCondition \/ WithPipe \/ RangePipe

SpecExpr == InitExpr /\ [][NextExpr]_vars

(***************************************************************************)
(* Restriction of the core functions.                                      *)
(***************************************************************************)
Converted == result # NoResult
\* the core-handled names the configuration's allow-list leaves out
Excluded == {f \in CoreFuncNames : ~isCoreFunc(Conv, f)}
UsedExcluded == NamesInPipe(input.pipe) \cap Excluded
\* strings.Contains(message, f) for a message whose text names the functions fs
Contains(fs, f) ==
    \/ f \in fs
    \/ f = "print" /\ "printf" \in fs
    \/ f = "merge" /\ "mergeOverwrite" \in fs

\* C2: under a configuration whose CoreFuncs allow-list is non-nil, every
\* use of a core-handled function that is not in the list makes the
\* conversion return an error, whatever the position of the use (first
\* command, later stage, parenthesised sub-pipe, condition); when the
\* function is the first command of the pipeline, the message contains its
\* name.
C2_FunctionRestriction ==
    (Converted /\ UsedExcluded # {}) =>
        /\ ~result.ok
        /\ input.pipe[1].fn \in Excluded => Contains(result.names, input.pipe[1].fn)

(***************************************************************************)
(* The bare dot.                                                           *)
(***************************************************************************)
\* The dot as an operand whose value is asked for: any operand but the
\* context argument of include (and what is nested in it).
RECURSIVE DotInCmd(_)
DotInCmd(cm) ==
    /\ cm.fn # "include"
    /\ \/ cm.val.t = "dot"
       \/ cm.val.t = "pipe" /\ \E k \in 1..Len(cm.val.cmds) : DotInCmd(cm.val.cmds[k])
DotInValuePosition(pipe) == \E k \in 1..Len(pipe) : DotInCmd(pipe[k])
NoDotBinding == input.rangeVarStack = <<>> /\ config.RootExpr = ""
BareDotCase == Converted /\ NoDotBinding /\ DotInValuePosition(input.pipe)

MaxFiles == 3   \* helper files given to parseHelpers

HelperNames == {"x", "y"}
Shapes == {"struct", "arg", "comprehension", "plain", "string"}
\* A string body is quoted as it is: it neither fails nor yields bad CUE.
\* Bad CUE from a body that converts is what the emitter writes for a body
\* line indented below the first line of its block.
HelperBodies ==
    {b \in [shape : Shapes, fails : BOOLEAN, valid : BOOLEAN] :
        /\ b.fails => b.valid
        /\ b.shape = "string" => ~b.fails /\ b.valid}
Body(shape, fails, valid) == [shape |-> shape, fails |-> fails, valid |-> valid]
\* the top-level tree of a helper file: the text around its define blocks
FileTree == Body("string", FALSE, TRUE)
\* the bodies the helper files of parseHelpers are drawn from
FileBodies == {Body("plain", FALSE, TRUE), Body("struct", FALSE, TRUE)}
HelperFiles == UNION {[S -> FileBodies] : S \in SUBSET HelperNames}

RECURSIVE SeqsUpTo(_, _)
SeqsUpTo(S, n) ==
    IF n = 0 THEN {<<>>}
    ELSE SeqsUpTo(S, n - 1) \cup
         {Append(q, x) : q \in {r \in SeqsUpTo(S, n - 1) : Len(r) = n - 1}, x \in S}

\* fmt.Sprintf("helper%d", i)
HelperFileName(i) == "helper" \o ToString(i)

Delete(m, keys) == [n \in DOMAIN m \ keys |-> m[n]]
\* the entries of add written over m
Put(m, add) == [n \in DOMAIN m \cup DOMAIN add |-> IF n \in DOMAIN add THEN add[n] ELSE m[n]]

\* the names a file defines that the shared set holds with the same body
identical(ts, file) == {n \in DOMAIN file \cap DOMAIN ts : ts[n] = file[n]}
\* the names a file defines that the shared set holds with another body
conflictingNever(ts, file) == {}
conflicting(ts, file) == {n \in DOMAIN file \cap DOMAIN ts : ts[n] # file[n]}

\* ht2.Parse(helper, "{{", "}}", treeSet): the defined templates, then the
\* file's own tree
parseFile(ts, file, name) == Put(Put(ts, file), [n \in {name} |-> FileTree])

InitHelpers ==
    /\ ph \in [helpers : SeqsUpTo(HelperFiles, MaxFiles), allowDup : BOOLEAN,
               i : {0}, err : {""}, done : {FALSE}]
    /\ IdleTrees
    /\ IdleEmit /\ IdleExpr /\ IdleJob

\* One turn of the loop over the helper files.
ParseHelper ==
    /\ ~ph.done /\ ph.i < Len(ph.helpers)
    /\ LET file == ph.helpers[ph.i + 1]
           name == HelperFileName(ph.i)
       IN  IF conflicting(treeSet, file) # {} /\ ~ph.allowDup
           THEN /\ ph' = [ph EXCEPT !.err = "conflicting definitions for template", !.done = TRUE]
                /\ treeSet' = <<>>
                /\ helperFileNames' = {}
           ELSE /\ ph' = [ph EXCEPT !.i = @ + 1]
                /\ treeSet' =
                     parseFile(Delete(treeSet, identical(treeSet, file) \cup conflicting(treeSet, file)),
                               file, name)
                /\ helperFileNames' = helperFileNames \cup {name}
    /\ UNCHANGED nonHelpersVars

\* return treeSet, helperFileNames, nil
ParseHelpersReturn ==
    /\ ~ph.done /\ ph.i = Len(ph.helpers)
    /\ ph' = [ph EXCEPT !.done = TRUE]
    /\ UNCHANGED <<treeVars, nonHelpersVars>>

NextHelpers == ParseHelper \/ ParseHelpersReturn

SpecHelpers == InitHelpers /\ [][NextHelpers]_vars

\* the files that define template n
DefinedIn(n) == {k \in 1..Len(ph.helpers) : n \in DOMAIN ph.helpers[k]}
LastDefinition(n) == ph.helpers[CHOOSE k \in DefinedIn(n) : \A j \in DefinedIn(n) : j <= k][n]
Defined == {n \in HelperNames : DefinedIn(n) # {}}
\* some name is defined in two files with different bodies
Conflict ==
    \E n \in HelperNames : \E j, k \in DefinedIn(n) : ph.helpers[j][n] # ph.helpers[k][n]
TwiceIdentical ==
    \E n \in HelperNames : \E j, k \in DefinedIn(n) : j # k /\ ph.helpers[j][n] = ph.helpers[k][n]

\* C6: parseHelpers over a sequence of helper files: a name defined in two
\* files with identical bodies is accepted and ends with one definition;
\* defined with different bodies it gives a "conflicting definitions" error
\* when allowDup is false; when allowDup is true parseHelpers succeeds and
\* the tree set holds, for every name, the definition of the last file that
\* defines it.
C6_DuplicateHelpers ==
    ph.done =>
        /\ (Conflict /\ ~ph.allowDup) => ph.err = "conflicting definitions for template"
        /\ (~Conflict \/ ph.allowDup) =>
              /\ ph.err = ""
              /\ DOMAIN treeSet = Defined \cup helperFileNames
              /\ \A n \in Defined : treeSet[n] = LastDefinition(n)

\* parseHelpers returned for files that redefine a name, once with the same
\* body and once, allowDup being set, with another
C6_Witness ==
    /\ ph.done /\ ph.err = "" /\ ph.allowDup /\ Conflict /\ TwiceIdentical

(***************************************************************************)
(* SpecChart: ConvertChart over the templates of a chart, and Convert over *)
(* the YAML documents of one input, on the tree set parseHelpers returned. *)
(*                                                                         *)
(* A template is known by whether its file can be read, whether            *)
(* processNodes succeeds on it, whether the CUE body produced for it       *)
(* parses (or is empty) and by the name of the {{ define }} block it       *)
(* holds, if any.                                                          *)
(***************************************************************************)
MaxTemplates == 2   \* templates of a chart, documents of an input

InlineDefines == {"", "z"}
Templates ==
    {t \in [read : BOOLEAN, conv : BOOLEAN, body : {"valid", "invalid", "empty"},
            define : InlineDefines] :
        /\ ~t.read => t.conv /\ t.define = ""
        /\ ~(t.read /\ t.conv) => t.body = "valid"}
\* the body of an inline define
InlineBody == Body("plain", FALSE, TRUE)
\* a template's own tree, as convertHelperBody would see it
TemplateTree(t) == Body("struct", ~t.conv, t.body # "invalid")

\* templateFieldName(filename) of the k-th template file
FieldName(k) == "t" \o ToString(k)
TemplateName(api, n, k) ==
    IF api = "chart" THEN "chart_" \o FieldName(k)
    ELSE IF n <= 1 THEN "helm" ELSE "helm_document_" \o ToString(k - 1)

\* convertHelperBody returns an expression (TRUE) or an error (FALSE)
convertHelperBody(b) ==
    IF b.shape = "string" THEN TRUE         \* strconv.Quote of the text
    ELSE IF b.fails THEN FALSE              \* processNodes failed
    ELSE IF b.shape = "plain" THEN TRUE     \* return body, nil, nil
    ELSE b.valid                            \* validateHelperExpr

\* tmpl.Parse(input, "{{", "}}", treeSet): a define of a name the set holds
\* is a "multiple definition" error and nothing is added
parseTemplate(ts, name, t) ==
    IF t.define # "" /\ t.define \in DOMAIN ts
    THEN [ok |-> FALSE, treeSet |-> ts]
    ELSE [ok |-> TRUE,
          treeSet |-> Put(Put(ts, [n \in {t.define} \ {""} |-> InlineBody]),
                          [n \in {name} |-> TemplateTree(t)])]

NoConvertResult == [idx |-> 0, helperOrder |-> {}, helpers |-> <<>>, body |-> "valid"]
\* What convertStructured returns and the tree set it leaves.  helpers maps
\* each converted helper to its expression, known by whether it parses.
convertStructured(t, k, templateName, ts, fileNames) ==
    LET p == parseTemplate(ts, templateName, t)
        order == DOMAIN p.treeSet \ ({templateName} \cup fileNames)
        helperCUE == [h \in {n \in order : convertHelperBody(p.treeSet[n])} |-> p.treeSet[h].valid]
    IN  IF ~p.ok THEN [err |-> "parsing template", treeSet |-> p.treeSet, r |-> NoConvertResult]
        ELSE IF ~t.conv THEN [err |-> "processNodes", treeSet |-> p.treeSet, r |-> NoConvertResult]
        ELSE [err |-> "",
              treeSet |-> Delete(p.treeSet, {templateName}),
              r |-> [idx |-> k, helperOrder |-> order, helpers |-> helperCUE, body |-> t.body]]

\* parser.ParseFile on the wrapped body
validateNothing(r) == TRUE
validateTemplateBody(r) == r.body # "invalid"

\* mergeConvertResults: helper info of the first result, every body wrapped
mergeConvertResults(results) ==
    [results[1] EXCEPT !.body = IF \E k \in 1..Len(results) : results[k].body = "invalid"
                                THEN "invalid" ELSE "valid"]

\* the helper declarations assembleSingleFile writes
assembleDecl(r) == [h \in r.helperOrder |-> IF h \in DOMAIN r.helpers THEN "expr" ELSE "_"]
\* format.Source on the assembled file
formatSource(r) == r.body # "invalid" /\ \A h \in DOMAIN r.helpers : r.helpers[h]
\* the helper declarations writeHelpersCUE writes
writeHelpersCUE(r) ==
    [h \in r.helperOrder |-> IF h \in DOMAIN r.helpers /\ r.helpers[h] THEN "expr" ELSE "_"]
\* the file writeTemplateCUE writes, none for an empty body
writeTemplateCUE(r) == IF r.body = "empty" THEN {} ELSE {FieldName(r.idx) \o ".cue"}

RECURSIVE templateFiles(_)
templateFiles(results) ==
    IF results = <<>> THEN {}
    ELSE writeTemplateCUE(Head(results)) \cup templateFiles(Tail(results))

\* len(results) == 0
noneConverted(results) == Len(results) = 0

InitChart ==
    /\ \E file \in UNION {[S -> HelperBodies] : S \in SUBSET HelperNames} :
          treeSet = parseFile(<<>>, file, HelperFileName(0))
    /\ helperFileNames = {HelperFileName(0)}
    /\ \E api \in {"chart", "convert"}, ts \in SeqsUpTo(Templates, MaxTemplates), y \in BOOLEAN :
          /\ api = "convert" => ~y /\ ts # <<>> /\ \A k \in 1..Len(ts) : ts[k].read
          /\ job = [NoJob EXCEPT !.api = api, !.templates = ts, !.valuesYaml = y]
    /\ docs = <<>>
    /\ IdleEmit /\ IdleExpr /\ IdleHelpers

\* ConvertChart: one turn of the loop over the template files.
ChartTemplate ==
    /\ job.api = "chart" /\ ~job.done /\ job.i < Len(job.templates)
    /\ LET k == job.i + 1
           t == job.templates[k]
           cs == convertStructured(t, k, TemplateName("chart", Len(job.templates), k),
                                   treeSet, helperFileNames)
           skip(why) == [job EXCEPT !.i = k, !.warnings = Append(@, [idx |-> k, why |-> why])]
       IN  IF ~t.read
           THEN job' = skip("read") /\ treeSet' = treeSet
           ELSE /\ treeSet' = cs.treeSet
                /\ job' = IF cs.err # "" THEN skip(cs.err)
                          ELSE IF ~validateTemplateBody(cs.r) THEN skip("invalid CUE")
                          ELSE [job EXCEPT !.i = k, !.results = Append(@, cs.r)]
    /\ UNCHANGED <<helperFileNames, nonChartVars>>

\* ConvertChart after the loop: the error, or the output directory.
ChartFinish ==
    /\ job.api = "chart" /\ ~job.done /\ job.i = Len(job.templates)
    /\ job' = IF noneConverted(job.results)
              THEN [job EXCEPT !.err = "no templates converted successfully", !.done = TRUE]
              ELSE [job EXCEPT
                      !.files = {"cue.mod/module.cue", "helpers.cue", "values.cue", "context.cue"}
                                \cup templateFiles(job.results)
                                \cup (IF job.valuesYaml THEN {"values.yaml"} ELSE {}),
                      !.decl = writeHelpersCUE(job.results[1]),
                      !.done = TRUE]
    /\ UNCHANGED <<treeVars, nonChartVars>>

\* Convert: convertStructured on the next document (on the only one).
ConvertDocument ==
    /\ job.api = "convert" /\ ~job.done /\ job.i < Len(job.templates)
    /\ LET k == job.i + 1
           cs == convertStructured(job.templates[k], k,
                                   TemplateName("convert", Len(job.templates), k),
                                   treeSet, helperFileNames)
       IN  /\ treeSet' = cs.treeSet
           /\ job' = IF cs.err # "" THEN [job EXCEPT !.i = k, !.err = cs.err, !.done = TRUE]
                     ELSE [job EXCEPT !.i = k, !.results = Append(@, cs.r)]
    /\ UNCHANGED <<helperFileNames, nonChartVars>>

\* Convert: assembleSingleFile on the result (on the merged results).
ConvertAssemble ==
    /\ job.api = "convert" /\ ~job.done /\ job.i = Len(job.templates)
    /\ LET r == IF Len(job.results) = 1 THEN job.results[1] ELSE mergeConvertResults(job.results)
       IN  job' = IF formatSource(r)
                  THEN [job EXCEPT !.decl = assembleDecl(r), !.done = TRUE]
                  ELSE [job EXCEPT !.decl = assembleDecl(r), !.err = "generated invalid CUE",
                                   !.done = TRUE]
    /\ UNCHANGED <<treeVars, nonChartVars>>

NextChart == ChartTemplate \/ ChartFinish \/ ConvertDocument \/ ConvertAssemble

SpecChart == InitChart /\ [][NextChart]_vars

\* the helpers of the helper file
FileHelpers == DOMAIN treeSet \cap HelperNames
\* a helper whose body cannot be converted or whose CUE does not parse
Degraded(b) == b.fails \/ ~b.valid
\* every template reads, converts, validates and defines nothing
TemplatesFine ==
    /\ job.templates # <<>>
    /\ \A k \in 1..Len(job.templates) :
          LET t == job.templates[k] IN t.read /\ t.conv /\ t.body # "invalid" /\ t.define = ""

\* C5: a helper whose body cannot be converted or is not valid CUE never
\* aborts the conversion, whatever the shape of its body: once the
\* conversion of templates that are themselves fine has returned, it has
\* returned no error and the helper is declared as `<cueName>: _`.
C5_HelperDegrades ==
    (job.done /\ TemplatesFine) =>
        /\ job.err = ""
        /\ \A h \in FileHelpers :
              Degraded(treeSet[h]) => h \in DOMAIN job.decl /\ job.decl[h] = "_"

\* C8: no conversion step changes the shared tree set.
C8_TreeSetReadOnly == [][treeSet' = treeSet]_vars

ResultIdx == {job.results[k].idx : k \in 1..Len(job.results)}
WarningIdx == {job.warnings[k].idx : k \in 1..Len(job.warnings)}
Fails(t) == ~t.read \/ ~t.conv \/ t.body = "invalid"

\* C7: ConvertChart: every template the loop has passed is either skipped
\* with a warning or converted; one that fails to read, convert or validate
\* is skipped; one that does none of these (and defines no template) is
\* converted whatever came before it; nothing is written before the loop
\* ends; if no template succeeded ConvertChart returns an error and has
\* written nothing; otherwise the per-template files are files of converted
\* templates only.
C7_ChartSkipsFailures ==
    job.api = "chart" =>
        /\ ResultIdx \cup WarningIdx = 1..job.i /\ ResultIdx \cap WarningIdx = {}
        /\ Len(job.results) + Len(job.warnings) = job.i
        /\ \A k \in 1..job.i :
              LET t == job.templates[k]
              IN  /\ Fails(t) => k \in WarningIdx
                  /\ (~Fails(t) /\ t.define = "") => k \in ResultIdx
        /\ ~job.done => job.files = {} /\ job.err = ""
        /\ job.done =>
              /\ job.i = Len(job.templates)
              /\ ResultIdx = {} => job.err # "" /\ job.files = {}
              /\ ResultIdx # {} =>
                    /\ job.err = ""
                    /\ "helpers.cue" \in job.files
                    /\ \A k \in 1..Len(job.templates) :
                          (FieldName(k) \o ".cue") \in job.files => k \in ResultIdx

\* ConvertChart returned after skipping a template and converting a later one
C7_Witness ==
    /\ job.api = "chart" /\ job.done /\ job.err = ""
    /\ 1 \in WarningIdx /\ 2 \in ResultIdx
    /\ (FieldName(2) \o ".cue") \in job.files

(***************************************************************************)
(* SpecFields: what a conversion records about the fields of a context     *)
(* object (.Values), and the schema made of it.                            *)
(*                                                                         *)
(* Every recording goes through trackFieldRef, so a path in requiredRefs,  *)
(* rangeRefs or defaults is always a path in fieldRefs too.                *)
(***************************************************************************)
MaxTracked == 3   \* references recorded over all documents
MaxDocs == 2      \* YAML documents of one input

\* f.Ident[1:] of the fields referenced; <<>> is `$.Values` itself
Paths == {<<>>, <<"a">>, <<"b-c">>, <<"a", "b-c">>}
DefaultValues == {"1", "2"}
NoFields == [fieldRefs |-> <<>>, defaults |-> <<>>, requiredRefs |-> <<>>, rangeRefs |-> <<>>]

\* c.fieldRefs[helmObj] = append(...); unless suppressRequired, requiredRefs too
trackFieldRef(f, path, suppressRequired) ==
    [f EXCEPT !.fieldRefs = Append(@, path),
              !.requiredRefs = IF suppressRequired THEN @ ELSE Append(@, path)]
trackNonScalarRef(f, path) == [f EXCEPT !.rangeRefs = Append(@, path)]

\* the tree: the paths of its nodes in the order they were created, the
\* default of each node (root included) and the marked nodes
NewTree == [order |-> <<>>, defVal |-> [p \in {<<>>} |-> ""], required |-> {}, isRange |-> {}]
Nodes(t) == {t.order[k] : k \in 1..Len(t.order)}
Prefixes(path) == [k \in 1..Len(path) |-> SubSeq(path, 1, k)]
IsMissing(t, q) == q \notin Nodes(t)
\* the walk of the first two loops: a child is created where none exists
insertPath(t, path) ==
    LET new == SelectSeq(Prefixes(path), LAMBDA q : IsMissing(t, q))
    IN  [t EXCEPT !.order = @ \o new,
                  !.defVal = [p \in DOMAIN @ \cup {new[k] : k \in 1..Len(new)} |->
                                 IF p \in DOMAIN @ THEN @[p] ELSE ""]]
\* a walk that ends on a node only when the node has no children
walkToLeafOnly(t, ref) ==
    LET found == {k \in 1..Len(ref) : SubSeq(ref, 1, k) \in Nodes(t)}
        node == SubSeq(ref, 1, Cardinality(found))
    IN  IF \E q \in Nodes(t) : Len(q) > Len(node) /\ SubSeq(q, 1, Len(node)) = node
        THEN <<>> ELSE node
\* the walk of the last two loops: it stops at the first missing child
walkExisting(t, ref) ==
    LET found == {k \in 1..Len(ref) : \A j \in 1..k : SubSeq(ref, 1, j) \in Nodes(t)}
    IN  SubSeq(ref, 1, Cardinality(found))

RECURSIVE addRefs(_, _)
addRefs(t, refs) ==
    IF refs = <<>> THEN t ELSE addRefs(insertPath(t, Head(refs)), Tail(refs))
RECURSIVE addDefaults(_, _)
addDefaults(t, defs) ==
    IF defs = <<>> THEN t
    ELSE addDefaults([insertPath(t, Head(defs).path) EXCEPT
                        !.defVal[Head(defs).path] = Head(defs).cueValue],
                     Tail(defs))
RECURSIVE markRequired(_, _)
markRequired(t, refs) ==
    IF refs = <<>> THEN t
    ELSE markRequired([t EXCEPT !.required = @ \cup ({walkExisting(t, Head(refs))} \ {<<>>})],
                      Tail(refs))
RECURSIVE markRange(_, _)
markRange(t, refs) ==
    IF refs = <<>> THEN t
    ELSE markRange([t EXCEPT !.isRange = @ \cup ({walkExisting(t, Head(refs))} \ {<<>>})],
                   Tail(refs))

buildFieldTree(refs, defs, requiredRefs, rangeRefs) ==
    markRange(markRequired(addDefaults(addRefs(NewTree, refs), defs), requiredRefs), rangeRefs)

\* the names identRe matches
Identifiers == {"a"}
cueKey(name) == IF name \in Identifiers THEN name ELSE "\"" \o name \o "\""
cueScalarType == "bool | number | string | null"

Children(t, p) ==
    SelectSeq(t.order, LAMBDA q : Len(q) = Len(p) + 1 /\ SubSeq(q, 1, Len(p)) = p)
\* a line of output; path names the node the line belongs to
Line(path, indent, text) == [path |-> path, indent |-> indent, text |-> text]

RECURSIVE emitFieldNodes(_, _, _)
emitFieldNode(t, n, indent) ==
    LET key == cueKey(n[Len(n)])
        marker == IF n \in t.required THEN "!" ELSE "?"
        leafType == IF n \in t.isRange THEN "_" ELSE cueScalarType
    IN  IF Children(t, n) # <<>>
        THEN <<Line(n, indent, key \o marker \o (IF n \in t.isRange THEN ": [...{" ELSE ": {"))>>
             \o emitFieldNodes(t, Children(t, n), indent + 1)
             \o <<Line(n, indent + 1, "..."),
                  Line(n, indent, IF n \in t.isRange THEN "}]" ELSE "}")>>
        ELSE IF t.defVal[n] # ""
        THEN <<Line(n, indent, key \o ": *" \o t.defVal[n] \o " | " \o leafType)>>
        ELSE <<Line(n, indent, key \o marker \o ": " \o leafType)>>
emitFieldNodes(t, ns, indent) ==
    IF ns = <<>> THEN <<>>
    ELSE emitFieldNode(t, Head(ns), indent) \o emitFieldNodes(t, Tail(ns), indent)

\* assembleSingleFile: the declaration of the context object's definition
valuesSchema(f) ==
    IF Len(f.defaults) = 0 /\ Len(f.fieldRefs) = 0
    THEN <<Line(<<>>, 0, "#values: _")>>
    ELSE <<Line(<<>>, 0, "#values: {")>>
         \o emitFieldNodes(buildFieldTree(f.fieldRefs, f.defaults, f.requiredRefs, f.rangeRefs),
                           Children(buildFieldTree(f.fieldRefs, f.defaults, f.requiredRefs,
                                                   f.rangeRefs), <<>>), 1)
         \o <<Line(<<>>, 1, "..."), Line(<<>>, 0, "}")>>

\* mergeConvertResults: the lists of every result appended in order
RECURSIVE mergeFieldRefs(_)
mergeFieldRefs(results) ==
    IF results = <<>> THEN NoFields
    ELSE LET r == results[Len(results)]
             m == mergeFieldRefs(SubSeq(results, 1, Len(results) - 1))
         IN  [fieldRefs |-> m.fieldRefs \o r.fieldRefs,
              defaults |-> m.defaults \o r.defaults,
              requiredRefs |-> m.requiredRefs \o r.requiredRefs,
              rangeRefs |-> m.rangeRefs \o r.rangeRefs]

RECURSIVE Tracked(_)
Tracked(ds) == IF ds = <<>> THEN 0 ELSE Len(Head(ds).fieldRefs) + Tracked(Tail(ds))

InitFields ==
    /\ docs = <<NoFields>>
    /\ job = NoJob
    /\ IdleEmit /\ IdleExpr /\ IdleHelpers /\ IdleTrees

\* a field used as a value, or (suppressRequired) in a condition
TrackFieldRef ==
    /\ Tracked(docs) < MaxTracked
    /\ \E path \in Paths, sup \in BOOLEAN :
          docs' = [docs EXCEPT ![Len(docs)] = trackFieldRef(@, path, sup)]
    /\ UNCHANGED nonFieldsVars

\* a field ranged over, serialised with toYaml or given to hasKey
TrackNonScalar ==
    /\ Tracked(docs) < MaxTracked
    /\ \E path \in Paths, sup \in BOOLEAN :
          docs' = [docs EXCEPT ![Len(docs)] = trackNonScalarRef(trackFieldRef(@, path, sup), path)]
    /\ UNCHANGED nonFieldsVars

\* a field given a default
TrackDefault ==
    /\ Tracked(docs) < MaxTracked
    /\ \E path \in Paths, sup \in BOOLEAN, v \in DefaultValues :
          docs' = [docs EXCEPT ![Len(docs)] =
                      [trackFieldRef(@, path, sup) EXCEPT
                          !.defaults = Append(@, [path |-> path, cueValue |-> v])]]
    /\ UNCHANGED nonFieldsVars

\* Convert goes on to the next document
NextDocument ==
    /\ Len(docs) < MaxDocs
    /\ docs' = Append(docs, NoFields)
    /\ UNCHANGED nonFieldsVars

NextFields == TrackFieldRef \/ TrackNonScalar \/ TrackDefault \/ NextDocument

SpecFields == InitFields /\ [][NextFields]_vars

TreeOf(f) == buildFieldTree(f.fieldRefs, f.defaults, f.requiredRefs, f.rangeRefs)
Monotone(t1, t2) ==
    /\ Nodes(t1) \subseteq Nodes(t2)
    /\ t1.required \subseteq t2.required
    /\ t1.isRange \subseteq t2.isRange

\* C9: the field tree is monotonic: whenever the recorded lists are
\* extended, every node of the tree built from the lists before exists in
\* the tree built from the extended lists, and every node marked required
\* or range before is marked so after.
C9_FieldTreeMonotonic ==
    [][Monotone(TreeOf(mergeFieldRefs(docs)), TreeOf(mergeFieldRefs(docs')))]_vars

\* a required range field that got a child after it was marked
C9_Witness ==
    LET f == mergeFieldRefs(docs)
        t == TreeOf(f)
    IN  /\ Len(f.fieldRefs) >= 2 /\ f.fieldRefs[1] = <<"a">> /\ f.fieldRefs[2] = <<"a", "b-c">>
        /\ f.requiredRefs # <<>> /\ f.requiredRefs[1] = <<"a">>
        /\ f.rangeRefs # <<>> /\ f.rangeRefs[1] = <<"a">>
        /\ <<"a">> \in t.required /\ <<"a">> \in t.isRange
        /\ Children(t, <<"a">>) # <<>>

SchemaLines(schema) == {schema[k] : k \in 1..Len(schema)}

\* C10: merging is order-independent: folding the results of two documents
\* in either order gives the same schema (the same lines for the same
\* fields), also when the documents record different defaults for a path.
C10_MergeOrderIndependent ==
    Len(docs) = 2 =>
        SchemaLines(valuesSchema(mergeFieldRefs(<<docs[1], docs[2]>>)))
            = SchemaLines(valuesSchema(mergeFieldRefs(<<docs[2], docs[1]>>)))

(***************************************************************************)
(* What an emitted schema asks of a values object.  A values object gives  *)
(* some of the fields a kind; a field has children only when it is a       *)
(* struct.  `k!` must be present, `k?` and `k: *d | T` may be absent; the  *)
(* scalar disjunction admits scalars, `_` anything, `{` structs and        *)
(* `[...{` lists.  The structs are open.                                   *)
(***************************************************************************)
FieldPaths == Paths \ {<<>>}
Parent(p) == SubSeq(p, 1, Len(p) - 1)
ValuesObjects ==
    {v \in UNION {[S -> {"scalar", "struct", "list"}] : S \in SUBSET FieldPaths} :
        \A p \in DOMAIN v : Len(p) > 1 => Parent(p) \in DOMAIN v /\ v[Parent(p)] = "struct"}
\* the line that declares field p, if the schema declares it
Declares(schema, p) ==
    {l \in SchemaLines(schema) : l.path = p /\ l.indent = Len(p) /\ l.text \notin {"}", "}]"}}
Key(p) == cueKey(p[Len(p)])
MustBePresent(l) ==
    l.text \in {Key(l.path) \o "!" \o rest : rest \in {": {", ": [...{", ": _", ": " \o cueScalarType}}
Admits(l, kind) ==
    \/ \E m \in {"!", "?"} :
          \/ l.text = Key(l.path) \o m \o ": {" /\ kind = "struct"
          \/ l.text = Key(l.path) \o m \o ": [...{" /\ kind = "list"
          \/ l.text = Key(l.path) \o m \o ": _"
          \/ l.text = Key(l.path) \o m \o ": " \o cueScalarType /\ kind = "scalar"
    \/ \E d \in DefaultValues :
          \/ l.text = Key(l.path) \o ": *" \o d \o " | _"
          \/ l.text = Key(l.path) \o ": *" \o d \o " | " \o cueScalarType /\ kind = "scalar"
Satisfies(v, schema) ==
    \A p \in FieldPaths : \A l \in Declares(schema, p) :
        (Len(p) = 1 \/ (Parent(p) \in DOMAIN v /\ v[Parent(p)] = "struct")) =>
            IF p \in DOMAIN v THEN Admits(l, v[p]) ELSE ~MustBePresent(l)

\* C11: structural monotonicity: the schema emitted for the first document
\* alone is satisfied by every values object that satisfies the schema
\* emitted for both documents.
C11_SchemaMonotonic ==
    Len(docs) = 2 =>
        \A v \in ValuesObjects :
            Satisfies(v, valuesSchema(mergeFieldRefs(docs))) =>
                Satisfies(v, valuesSchema(mergeFieldRefs(<<docs[1]>>)))

\* writeValuesCUE of the chart output: the tree is built from the merged
\* field references and defaults alone
writeValuesCUE(refs, defs) ==
    IF Len(refs) = 0 /\ Len(defs) = 0
    THEN <<Line(<<>>, 0, "#values: _")>>
    ELSE <<Line(<<>>, 0, "#values: {")>>
         \o emitFieldNodes(buildFieldTree(refs, defs, <<>>, <<>>),
                           Children(buildFieldTree(refs, defs, <<>>, <<>>), <<>>), 1)
         \o <<Line(<<>>, 1, "..."), Line(<<>>, 0, "}")>>

Elems(q) == {q[k] : k \in 1..Len(q)}
\* the fields recorded: every prefix of a referenced or defaulted path
Recorded(f) ==
    UNION {Elems(Prefixes(p)) : p \in Elems(f.fieldRefs) \cup {d.path : d \in Elems(f.defaults)}}
\* the texts the leaf table allows for field p
TableTexts(f, p) ==
    LET marker == IF p \in Elems(f.requiredRefs) THEN "!" ELSE "?"
        isRange == p \in Elems(f.rangeRefs)
        type == IF isRange THEN "_" ELSE cueScalarType
        ds == {d.cueValue : d \in {e \in Elems(f.defaults) : e.path = p}}
    IN  IF \E q \in Recorded(f) : Len(q) > Len(p) /\ SubSeq(q, 1, Len(p)) = p
        THEN {Key(p) \o marker \o (IF isRange THEN ": [...{" ELSE ": {")}
        ELSE IF ds # {} THEN {Key(p) \o ": *" \o d \o " | " \o type : d \in ds}
        ELSE {Key(p) \o marker \o ": " \o type}
FollowsLeafTable(schema, f) ==
    \A p \in Recorded(f) :
        /\ Declares(schema, p) # {}
        /\ \A l \in Declares(schema, p) : l.text \in TableTexts(f, p)

\* C12: schema emission follows the leaf table for every recorded field, in
\* the single-file output and in the chart output alike.
C12_LeafTable ==
    LET f == mergeFieldRefs(docs)
    IN  /\ FollowsLeafTable(valuesSchema(f), f)
        /\ FollowsLeafTable(writeValuesCUE(f.fieldRefs, f.defaults), f)

(***************************************************************************)
(* SpecCond: the guards of an if over and/or/not.                          *)
(*                                                                         *)
(* input is the condition, a tree over the fields .Values.a, .b, .c; the   *)
(* result holds the positive and the negative guard as the sequence of     *)
(* the tokens of the CUE text.                                             *)
(***************************************************************************)
MaxCondDepth == 2   \* nesting of and/or/not in a condition
CondArity == 2      \* arguments given to and/or

CondFields == {"a", "b", "c"}
CondNode(op, name, args) == [op |-> op, name |-> name, args |-> args]
RECURSIVE Conds(_)
Conds(d) ==
    IF d = 0 THEN {CondNode("field", f, <<>>) : f \in CondFields}
    ELSE Conds(d - 1)
         \cup {CondNode("not", "", <<x>>) : x \in Conds(d - 1)}
         \cup {CondNode(op, "", args) : op \in {"and", "or"},
                                       args \in [1..CondArity -> Conds(d - 1)]}

\* strings.Join(parts, sep), on token sequences
RECURSIVE Join(_, _)
Join(parts, sep) ==
    IF Len(parts) = 0 THEN <<>>
    ELSE IF Len(parts) = 1 THEN parts[1]
    ELSE parts[1] \o <<sep>> \o Join(Tail(parts), sep)

\* fmt.Sprintf("(_nonzero & {#arg: %s, _})", expr) for the field .Values.f
nonzeroText(f) == "(_nonzero & {#arg: #values." \o f \o ", _})"

RECURSIVE conditionNodeToExprText(_)
\* conditionPipeToExpr for a pipe of one command: not, and, or
conditionPipeToExprText(n) ==
    IF n.op = "not"
    THEN <<"!", "(">> \o conditionNodeToExprText(n.args[1]) \o <<")">>
    ELSE Join([k \in 1..Len(n.args) |-> conditionNodeToExprText(n.args[k])],
              IF n.op = "and" THEN "&&" ELSE "||")
conditionNodeToExprText(n) ==
    IF n.op = "field" THEN <<nonzeroText(n.name)>>   \* case *parse.FieldNode
    ELSE conditionPipeToExprText(n)                  \* case *parse.PipeNode
pipeToCUEConditionText(n) ==
    LET pos == conditionNodeToExprText(n)
    IN  [pos |-> pos, neg |-> <<"!", "(">> \o pos \o <<")">>]

InitCond ==
    /\ config = HelmConfig
    /\ input \in [pos : {"if"}, cond : Conds(MaxCondDepth) \ Conds(0)]
    /\ result = NoResult
    /\ IdleEmit /\ IdleHelpers /\ IdleTrees /\ IdleJob

\* processIf: the guards of the condition
ConvertCondition ==
    /\ result = NoResult
    /\ result' = pipeToCUEConditionText(input.cond)
    /\ UNCHANGED <<config, input, nonExprVars>>

SpecCond == InitCond /\ [][ConvertCondition]_vars

(***************************************************************************)
(* Truth of a template condition and value of a CUE guard, for a truth     *)
(* assignment to the fields.  In CUE `!` binds tighter than `&&`, and `&&` *)
(* tighter than `||`.                                                      *)
(***************************************************************************)
Assignments == [CondFields -> BOOLEAN]
RECURSIVE Truth(_, _)
Truth(n, asg) ==
    IF n.op = "field" THEN asg[n.name]
    ELSE IF n.op = "not" THEN ~Truth(n.args[1], asg)
    ELSE IF n.op = "and" THEN \A k \in 1..Len(n.args) : Truth(n.args[k], asg)
    ELSE \E k \in 1..Len(n.args) : Truth(n.args[k], asg)

Val(v, rest) == [v |-> v, rest |-> rest]
RECURSIVE EvalOr(_, _)
RECURSIVE EvalAnd(_, _)
RECURSIVE EvalUnary(_, _)
RECURSIVE OrTail(_, _, _)
RECURSIVE AndTail(_, _, _)
EvalUnary(ts, asg) ==
    IF Head(ts) = "!"
    THEN LET e == EvalUnary(Tail(ts), asg) IN Val(~e.v, e.rest)
    ELSE IF Head(ts) = "("
    THEN LET e == EvalOr(Tail(ts), asg) IN Val(e.v, Tail(e.rest))
    ELSE Val(asg[CHOOSE f \in CondFields : nonzeroText(f) = Head(ts)], Tail(ts))
AndTail(v, ts, asg) ==
    IF ts # <<>> /\ Head(ts) = "&&"
    THEN LET e == EvalUnary(Tail(ts), asg) IN AndTail(v /\ e.v, e.rest, asg)
    ELSE Val(v, ts)
EvalAnd(ts, asg) == LET e == EvalUnary(ts, asg) IN AndTail(e.v, e.rest, asg)
OrTail(v, ts, asg) ==
    IF ts # <<>> /\ Head(ts) = "||"
    THEN LET e == EvalAnd(Tail(ts), asg) IN OrTail(v \/ e.v, e.rest, asg)
    ELSE Val(v, ts)
EvalOr(ts, asg) == LET e == EvalAnd(ts, asg) IN OrTail(e.v, e.rest, asg)
GuardValue(ts, asg) == EvalOr(ts, asg).v

\* C13: for a condition built from and/or/not over fields, the positive
\* guard has, for every truth assignment to the fields, the truth value of
\* the template condition, and the else guard has the opposite value.
C13_GuardEquivalence ==
    result # NoResult =>
        \A asg \in Assignments :
            /\ GuardValue(result.pos, asg) = Truth(input.cond, asg)
            /\ GuardValue(result.neg, asg) = ~GuardValue(result.pos, asg)

(***************************************************************************)
(* SpecSentinel: configured pipeline functions (Config.Funcs) applied to a *)
(* field, as the first command or as a later stage, in an action or in a   *)
(* parenthesised sub-pipe given to `upper`.  The result holds the CUE      *)
(* expression or the error.                                                *)
(***************************************************************************)
MaxFuncStages == 1   \* stages after the first command

\* entries of HelmConfig().Funcs; nosuch is in no table
PipelineFuncs ==
    [upper |-> [Nargs |-> 0, Convert |-> TRUE, Passthrough |-> FALSE],
     toYaml |-> [Nargs |-> 0, Convert |-> FALSE, Passthrough |-> TRUE],
     nindent |-> [Nargs |-> 0, Convert |-> FALSE, Passthrough |-> FALSE],
     set |-> [Nargs |-> 0, Convert |-> TRUE, Passthrough |-> FALSE],
     lookup |-> [Nargs |-> 0, Convert |-> TRUE, Passthrough |-> FALSE]]
StageFuncs == DOMAIN PipelineFuncs \cup {"nosuch"}
\* pf.Convert(expr, args)
Convert(fn, expr) ==
    IF fn = "upper" THEN "strings.ToUpper(" \o expr \o ")"
    ELSE ""   \* set, lookup: sentinel

FuncPipe(first, field, stages) == [first |-> first, field |-> field, stages |-> stages]
FuncPipes ==
    {FuncPipe(first, f, st) : first \in StageFuncs \cup {""}, f \in CondFields,
                              st \in SeqsUpTo(StageFuncs, MaxFuncStages)}
NamesInFuncPipe(p) == ({p.first} \ {""}) \cup Elems(p.stages)

ExprOk(expr) == [ok |-> TRUE, expr |-> expr, msg |-> "", names |-> {}]
ExprErr(msg, names) == [ok |-> FALSE, expr |-> "", msg |-> msg, names |-> names]
\* fieldToCUE for .Values.f
fieldToCUE(f) == "#values." \o f

\* the loop of convertSubPipe over pipe.Cmds[1:]
RECURSIVE subPipeStages(_, _, _)
subPipeStages(p, expr, k) ==
    IF k > Len(p.stages) THEN ExprOk(expr)
    ELSE LET fn == p.stages[k]
         IN  IF fn \notin DOMAIN PipelineFuncs
             THEN ExprErr("unsupported pipe node: %s", NamesInFuncPipe(p))
             ELSE IF ~PipelineFuncs[fn].Convert THEN subPipeStages(p, expr, k + 1)
             ELSE subPipeStages(p, Convert(fn, expr), k + 1)

\* convertSubPipe for `(field | stages)` and `(first field | stages)`
convertSubPipeText(p) ==
    LET unsupported == ExprErr("unsupported pipe node: %s", NamesInFuncPipe(p))
        expr == IF p.first = "" THEN fieldToCUE(p.field)
                ELSE IF PipelineFuncs[p.first].Convert THEN Convert(p.first, fieldToCUE(p.field))
                ELSE fieldToCUE(p.field)
    IN  IF p.first # "" /\ p.first \notin DOMAIN PipelineFuncs THEN unsupported
        ELSE IF expr = "" THEN unsupported
        ELSE subPipeStages(p, expr, 1)

\* the loop of actionToCUE over pipe.Cmds[1:], Funcs functions
RECURSIVE actionStages(_, _, _)
actionStages(p, expr, k) ==
    IF k > Len(p.stages) THEN ExprOk(expr)
    ELSE LET fn == p.stages[k]
         IN  IF fn \notin DOMAIN PipelineFuncs
             THEN ExprErr("unsupported pipeline function: %s", {fn})
             ELSE IF ~PipelineFuncs[fn].Convert THEN actionStages(p, expr, k + 1)
             ELSE IF Convert(fn, expr) = ""
             THEN ExprErr("function %q has no CUE equivalent and cannot be converted", {fn})
             ELSE actionStages(p, Convert(fn, expr), k + 1)

\* actionToCUE, first command `fn ARG` of a Funcs function (default case)
\* or a field alone; arg is the converted argument
firstFuncCommand(fn, arg) ==
    IF ~arg.ok THEN [arg EXCEPT !.names = @ \cup {fn}]   \* "%s argument: %w"
    ELSE IF fn = "" THEN arg
    ELSE IF fn \notin DOMAIN PipelineFuncs THEN ExprOk("")
    ELSE IF PipelineFuncs[fn].Passthrough THEN arg
    ELSE IF PipelineFuncs[fn].Convert /\ PipelineFuncs[fn].Nargs = 0
    THEN ExprOk(Convert(fn, arg.expr))
    ELSE ExprOk("")

\* {{ first .Values.f | stages }}
actionToCUEText(p) ==
    LET head == firstFuncCommand(p.first, ExprOk(fieldToCUE(p.field)))
    IN  IF ~head.ok THEN head
        ELSE IF head.expr = ""
        THEN ExprErr("unsupported template action: %s", NamesInFuncPipe(p))
        ELSE actionStages(p, head.expr, 1)

\* {{ upper (p) }}: the sub-pipe reaches convertSubPipe through nodeToExpr
actionOverSubPipe(p) ==
    LET head == firstFuncCommand("upper", convertSubPipeText(p))
    IN  IF ~head.ok THEN head
        ELSE IF head.expr = ""
        THEN ExprErr("unsupported template action: %s", {"upper"} \cup NamesInFuncPipe(p))
        ELSE head

InitSentinel ==
    /\ config = HelmConfig
    /\ input \in [pos : {"action", "sub"}, pipe : FuncPipes]
    /\ result = NoResult
    /\ IdleEmit /\ IdleHelpers /\ IdleTrees /\ IdleJob

\* processNode, case *parse.ActionNode: {{ pipe }}
ConvertFuncAction ==
    /\ input.pos = "action" /\ result = NoResult
    /\ result' = actionToCUEText(input.pipe)
    /\ UNCHANGED <<config, input, nonExprVars>>

\* processNode, case *parse.ActionNode: {{ upper (pipe) }}
ConvertFuncSubPipe ==
    /\ input.pos = "sub" /\ result = NoResult
    /\ result' = actionOverSubPipe(input.pipe)
    /\ UNCHANGED <<config, input, nonExprVars>>

NextSentinel == ConvertFuncAction \/ ConvertFuncSubPipe

SpecSentinel == InitSentinel /\ [][NextSentinel]_vars

Sentinels == {fn \in DOMAIN PipelineFuncs : PipelineFuncs[fn].Convert /\ Convert(fn, "x") = ""}
\* a sentinel function is applied and every function of the pipe is configured
SentinelApplied ==
    /\ NamesInFuncPipe(input.pipe) \cap Sentinels # {}
    /\ NamesInFuncPipe(input.pipe) \subseteq DOMAIN PipelineFuncs

\* C14: when a configured function whose Convert returns the empty string
\* is applied, as the first command, as a pipeline stage or as a stage of a
\* nested sub-pipe, the conversion returns an error whose text names the
\* function, and no conversion succeeds with the empty expression.
C14_EmptyConvertIsError ==
    result # NoResult =>
        /\ SentinelApplied =>
              ~result.ok /\ result.names \cap Sentinels \cap NamesInFuncPipe(input.pipe) # {}
        /\ result.ok => result.expr # ""

(***************************************************************************)
(* SpecPrintf: {{ printf FORMAT ARGS }} with a string-literal format and   *)
(* .Values fields as value arguments.  The format is a sequence of bytes.  *)
(***************************************************************************)
MaxFormat == 3      \* bytes of the format string
MaxPrintfArgs == 2  \* value arguments

FormatBytes == {"%", "s", "d", "v", "a"}
Formats == SeqsUpTo(FormatBytes, MaxFormat)
PrintfArgs == SeqsUpTo({"a", "b"}, MaxPrintfArgs)

\* the else branch of the loop: one byte of literal text, escaped
escapeByte(b) ==
    IF b = "\\" THEN "\\\\"
    ELSE IF b = "\"" THEN "\\\""
    ELSE IF b = "\n" THEN "\\n"
    ELSE IF b = "\t" THEN "\\t"
    ELSE b

\* the loop of convertPrintf from byte i on, out being the text written so
\* far and argIdx the number of value arguments consumed
RECURSIVE printfLoop(_, _, _, _, _)
printfLoop(format, valueArgs, i, argIdx, out) ==
    IF i > Len(format)
    THEN [ok |-> TRUE, expr |-> out \o "\"", msg |-> "", argIdx |-> argIdx]
    ELSE IF format[i] = "%" /\ i + 1 <= Len(format)
    THEN LET verb == format[i + 1]
         IN  IF verb \in {"s", "d", "v"}
             THEN IF argIdx >= Len(valueArgs)
                  THEN [ok |-> FALSE, expr |-> "", argIdx |-> argIdx,
                        msg |-> "printf: not enough arguments for format string"]
                  ELSE printfLoop(format, valueArgs, i + 2, argIdx + 1,
                                  out \o "\\(" \o fieldToCUE(valueArgs[argIdx + 1]) \o ")")
             ELSE IF verb = "%"
             THEN printfLoop(format, valueArgs, i + 2, argIdx, out \o "%")
             ELSE [ok |-> FALSE, expr |-> "", argIdx |-> argIdx,
                   msg |-> "printf: unsupported format verb %" \o verb]
    ELSE printfLoop(format, valueArgs, i + 1, argIdx, out \o escapeByte(format[i]))

\* convertPrintf(args) with args[0] the format literal
convertPrintfText(format, valueArgs) == printfLoop(format, valueArgs, 1, 0, "\"")

InitPrintf ==
    /\ config = HelmConfig
    /\ input \in [format : Formats, valueArgs : PrintfArgs]
    /\ result = NoResult
    /\ IdleEmit /\ IdleHelpers /\ IdleTrees /\ IdleJob

\* actionToCUE, first command printf
ConvertPrintf ==
    /\ result = NoResult
    /\ result' = convertPrintfText(input.format, input.valueArgs)
    /\ UNCHANGED <<config, input, nonExprVars>>

SpecPrintf == InitPrintf /\ [][ConvertPrintf]_vars

\* the %s/%d/%v verbs of a format, read as printf reads it: %% is a
\* literal percent sign and a % at the end is literal text
RECURSIVE Verbs(_, _)
Verbs(format, i) ==
    IF i > Len(format) THEN 0
    ELSE IF format[i] = "%" /\ i < Len(format)
    THEN (IF format[i + 1] \in {"s", "d", "v"} THEN 1 ELSE 0) + Verbs(format, i + 2)
    ELSE Verbs(format, i + 1)
\* every % of the format introduces %s, %d, %v or %%
RECURSIVE SupportedVerbs(_, _)
SupportedVerbs(format, i) ==
    IF i > Len(format) THEN TRUE
    ELSE IF format[i] = "%" /\ i < Len(format)
    THEN format[i + 1] \in {"s", "d", "v", "%"} /\ SupportedVerbs(format, i + 2)
    ELSE SupportedVerbs(format, i + 1)

\* C15: for a format with supported verbs only, printf conversion succeeds
\* exactly when the number of value arguments equals the number of
\* %s/%d/%v verbs (it fails with too few and with too many arguments), and
\* a successful conversion has one interpolation per verb.
C15_PrintfArity ==
    (result # NoResult /\ SupportedVerbs(input.format, 1)) =>
        /\ result.ok <=> Len(input.valueArgs) = Verbs(input.format, 1)
        /\ result.ok => result.argIdx = Verbs(input.format, 1)

(***************************************************************************)
(* SpecInclude: convertStructured over a tree set of two helpers and one   *)
(* template.  A body is a sequence of items: text, a field of dot          *)
(* ({{ .name }}) or an include call ({{ include "h" .Values.foo }} or      *)
(* {{ include "h" . }}).  job holds the converter: the bodies, the next    *)
(* helper of helperOrder, helperArgFieldRefs, the field references and the *)
(* expressions emitted for the template.                                   *)
(***************************************************************************)
MaxItems == 2   \* items of a body

ArgFields == {"name"}
BaseFields == {"foo"}
TextItem == [kind |-> "text", name |-> "", base |-> ""]
FieldItem(f) == [kind |-> "field", name |-> f, base |-> ""]
\* base "" is the dot argument
IncludeItem(h, base) == [kind |-> "include", name |-> h, base |-> base]
Includes(hs) == {IncludeItem(h, b) : h \in hs, b \in BaseFields \cup {""}}
\* a helper does not include itself
HelperItems(h) ==
    {TextItem} \cup {FieldItem(f) : f \in ArgFields} \cup Includes(HelperNames \ {h})
TemplateItems == {TextItem} \cup Includes(HelperNames)

\* slices.Sort(c.helperOrder)
sortedHelperOrder == <<"x", "y">>
helperToCUEName(name) == "_" \o name

\* propagateHelperArgRefs(cueName, "Values", basePath)
RECURSIVE propagateHelperArgRefs(_, _, _, _)
propagateHelperArgRefs(f, argRefs, basePath, k) ==
    IF k > Len(argRefs) THEN f
    ELSE propagateHelperArgRefs(trackFieldRef(f, basePath \o argRefs[k], FALSE),
                                argRefs, basePath, k + 1)

\* one include call: convertIncludeContext, handleInclude,
\* propagateHelperArgRefs and the expression; st is the converter
includeCall(st, item) ==
    LET cueName == helperToCUEName(item.name)
        isField == item.base # ""
        tracked == IF isField THEN trackFieldRef(st.f, <<item.base>>, FALSE) ELSE st.f
        argRefs == IF item.name \in DOMAIN st.helperArgFieldRefs
                   THEN st.helperArgFieldRefs[item.name] ELSE <<>>
        expr == IF isField
                THEN cueName \o " & {#arg: " \o fieldToCUE(item.base) \o ", _}"
                ELSE cueName
    IN  [st EXCEPT !.f = IF isField
                         THEN propagateHelperArgRefs(tracked, argRefs, <<item.base>>, 1)
                         ELSE tracked,
                   !.out = Append(@, [item |-> item, expr |-> expr])]

\* processNodes over a body; in a helper body a field of dot is recorded in
\* helperArgRefs (fieldToCUEInContext, "#arg" on the rangeVarStack)
RECURSIVE processItems(_, _, _)
processItems(st, items, k) ==
    IF k > Len(items) THEN st
    ELSE LET item == items[k]
         IN  IF item.kind = "include" THEN processItems(includeCall(st, item), items, k + 1)
             ELSE IF item.kind = "field"
             THEN processItems([st EXCEPT !.helperArgRefs = Append(@, <<item.name>>)],
                               items, k + 1)
             ELSE processItems(st, items, k + 1)

NewIncludeJob(helpers, template) ==
    [helpers |-> helpers, template |-> template, i |-> 1,
     helperArgFieldRefs |-> <<>>, helperArgRefs |-> <<>>, f |-> NoFields,
     out |-> <<>>, done |-> FALSE]

InitInclude ==
    /\ \E bx \in SeqsUpTo(HelperItems("x"), MaxItems) :
       \E by \in SeqsUpTo(HelperItems("y"), MaxItems) :
       \E t \in SeqsUpTo(TemplateItems, MaxItems) :
           job = NewIncludeJob([x |-> bx, y |-> by], t)
    /\ docs = <<>>
    /\ IdleEmit /\ IdleExpr /\ IdleHelpers /\ IdleTrees

\* Phase 0b, one turn of the loop: convertHelperBody on a sub-converter
\* sharing fieldRefs and helperArgFieldRefs; the helper's #arg paths are
\* recorded when its body refers to #arg
ConvertHelperBody ==
    /\ ~job.done /\ job.i <= Len(sortedHelperOrder)
    /\ LET name == sortedHelperOrder[job.i]
           sub == processItems([job EXCEPT !.helperArgRefs = <<>>, !.out = <<>>],
                               job.helpers[name], 1)
           argRefs == sub.helperArgRefs
       IN  job' = [job EXCEPT !.f = sub.f,
                              !.i = @ + 1,
                              !.helperArgFieldRefs =
                                  IF Len(argRefs) > 0 THEN Put(@, [n \in {name} |-> argRefs]) ELSE @]
    /\ UNCHANGED <<emitVars, exprVars, ph, treeVars, docs>>

\* Phase 1: processNodes over the template
ConvertTemplateBody ==
    /\ ~job.done /\ job.i > Len(sortedHelperOrder)
    /\ job' = [processItems(job, job.template, 1) EXCEPT !.done = TRUE]
    /\ UNCHANGED <<emitVars, exprVars, ph, treeVars, docs>>

NextInclude == ConvertHelperBody \/ ConvertTemplateBody

SpecInclude == InitInclude /\ [][NextInclude]_vars

\* the include calls with a context-object field argument, in the template
\* and in the helper bodies
FieldCalls ==
    {it \in Elems(job.template) \cup UNION {Elems(job.helpers[h]) : h \in HelperNames} :
        it.kind = "include" /\ it.base # ""}
\* the paths recorded on the #arg of helper h
ArgPaths(h) ==
    IF h \in DOMAIN job.helperArgFieldRefs THEN Elems(job.helperArgFieldRefs[h]) ELSE {}

\* C16: after the conversion, for every include call whose argument is a
\* field .Values.foo, in the template or in a helper body, every path
\* recorded on the called helper's #arg is among the Values references
\* prefixed by foo; and each such call of the template is emitted as
\* `<helper> & {#arg: #values.foo, _}`.
C16_IncludePropagates ==
    (job # NoJob /\ job.done) =>
        /\ \A call \in FieldCalls : \A p \in ArgPaths(call.name) :
               <<call.base>> \o p \in Elems(job.f.fieldRefs)
        /\ \A k \in 1..Len(job.out) :
               job.out[k].item.base # "" =>
                   job.out[k].expr = helperToCUEName(job.out[k].item.name)
                       \o " & {#arg: " \o fieldToCUE(job.out[k].item.base) \o ", _}"

(***************************************************************************)
(* SpecDefault: one field with one literal default, converted by           *)
(* actionToCUE in first-command form, {{ default v FIELD }}, and in        *)
(* pipeline form, {{ FIELD | default v }}, each by a fresh converter with  *)
(* the rangeVarStack of the input.  result holds what each form returned   *)
(* and recorded.                                                           *)
(***************************************************************************)
DefaultLiterals == {"1", "\"x\""}   \* nodeToCUELiteral of the literal
FieldNode(ident) == [t |-> "field", Ident |-> ident]
VariableNode(ident) == [t |-> "variable", Ident |-> ident]
DefaultFields ==
    {FieldNode(<<"Values", "a">>), FieldNode(<<"Values", "a", "b">>),
     FieldNode(<<"name">>), FieldNode(<<"name", "sub">>),
     VariableNode(<<"$", "Values", "a">>)}
rangeContext(cueExpr, helmObj, basePath) ==
    [cueExpr |-> cueExpr, helmObj |-> helmObj, basePath |-> basePath]
\* no rebinding; {{ with .Values.foo }}; {{ range .Values.foo }} (item)
DefaultStacks ==
    {<<>>, <<rangeContext("#values.foo", "Values", <<"foo">>)>>,
     <<rangeContext("item", "", <<>>)>>}

ContextObjects == [Values |-> "#values"]
RECURSIVE JoinDots(_)
JoinDots(ident) ==
    IF Len(ident) = 0 THEN ""
    ELSE IF Len(ident) = 1 THEN ident[1]
    ELSE ident[1] \o "." \o JoinDots(Tail(ident))

\* fieldToCUE(contextObjects, ident)
fieldToCUEIdent(ident) ==
    IF Len(ident) > 0 /\ ident[1] \in DOMAIN ContextObjects
    THEN [expr |-> JoinDots(<<ContextObjects[ident[1]]>> \o Tail(ident)), helmObj |-> ident[1]]
    ELSE [expr |-> JoinDots(ident), helmObj |-> ""]

\* fieldToCUEInContext(ident), f being the references recorded so far
fieldToCUEInContextText(stack, f, ident, suppressRequired) ==
    IF Len(ident) > 0 /\ ident[1] \in DOMAIN ContextObjects
    THEN fieldToCUEIdent(ident) @@ [f |-> f]
    ELSE IF Len(stack) > 0
    THEN LET top == stack[Len(stack)]
         IN  [expr |-> JoinDots(<<top.cueExpr>> \o ident), helmObj |-> "",
              f |-> IF top.helmObj # ""
                    THEN trackFieldRef(f, top.basePath \o ident, suppressRequired) ELSE f]
    ELSE fieldToCUEIdent(ident) @@ [f |-> f]

DefaultOut(expr, helmObj, f) == [done |-> TRUE, expr |-> expr, helmObj |-> helmObj, f |-> f]
NotConverted == [done |-> FALSE, expr |-> "", helmObj |-> "", f |-> NoFields]

\* actionToCUE, first command `default v ARG` (case "default")
defaultFirstCommand(stack, arg, defaultVal) ==
    IF arg.t = "field"
    THEN LET r == fieldToCUEIdent(arg.Ident)
             fieldPath == Tail(arg.Ident)
         IN  IF r.helmObj # ""
             THEN DefaultOut(r.expr, r.helmObj,
                      [trackFieldRef(NoFields, fieldPath, FALSE) EXCEPT
                          !.defaults = Append(@, [path |-> fieldPath, cueValue |-> defaultVal])])
             ELSE DefaultOut(r.expr, r.helmObj, NoFields)
    ELSE \* VariableNode $.Obj.path
         LET r == fieldToCUEIdent(Tail(arg.Ident))
             fieldPath == IF Len(arg.Ident) >= 3 THEN Tail(Tail(arg.Ident)) ELSE <<>>
         IN  IF r.helmObj # ""
             THEN DefaultOut(r.expr, r.helmObj,
                      [trackFieldRef(NoFields, fieldPath, FALSE) EXCEPT
                          !.defaults = Append(@, [path |-> fieldPath, cueValue |-> defaultVal])])
             ELSE DefaultOut(r.expr, r.helmObj, NoFields)

\* actionToCUE, first command ARG alone, then the stage `default v`
defaultPipeline(stack, arg, defaultVal) ==
    LET first ==
            IF arg.t = "field"
            THEN LET r == fieldToCUEInContextText(stack, NoFields, arg.Ident, FALSE)
                 IN  [expr |-> r.expr, helmObj |-> r.helmObj,
                      isNil |-> r.helmObj = "", fieldPath |-> Tail(arg.Ident),
                      f |-> IF r.helmObj # ""
                            THEN trackFieldRef(r.f, Tail(arg.Ident), FALSE) ELSE r.f]
            ELSE LET r == fieldToCUEIdent(Tail(arg.Ident))
                     fieldPath == IF Len(arg.Ident) >= 3 THEN Tail(Tail(arg.Ident)) ELSE <<>>
                 IN  [expr |-> r.expr, helmObj |-> r.helmObj,
                      isNil |-> r.helmObj = "" \/ Len(arg.Ident) < 3, fieldPath |-> fieldPath,
                      f |-> IF r.helmObj # ""
                            THEN trackFieldRef(NoFields, fieldPath, FALSE) ELSE NoFields]
    IN  IF first.helmObj # "" /\ ~first.isNil
        THEN DefaultOut(first.expr, first.helmObj,
                 [first.f EXCEPT !.defaults =
                     Append(@, [path |-> first.fieldPath, cueValue |-> defaultVal])])
        ELSE DefaultOut(first.expr, first.helmObj, first.f)

InitDefault ==
    /\ config = HelmConfig
    /\ input \in [arg : DefaultFields, defaultVal : DefaultLiterals, rangeVarStack : DefaultStacks]
    /\ result = [firstForm |-> NotConverted, pipeForm |-> NotConverted]
    /\ IdleEmit /\ IdleHelpers /\ IdleTrees /\ IdleJob

\* {{ default v FIELD }}
ConvertDefaultFirst ==
    /\ ~result.firstForm.done
    /\ result' = [result EXCEPT !.firstForm =
                     defaultFirstCommand(input.rangeVarStack, input.arg, input.defaultVal)]
    /\ UNCHANGED <<config, input, nonExprVars>>

\* {{ FIELD | default v }}
ConvertDefaultPipe ==
    /\ ~result.pipeForm.done
    /\ result' = [result EXCEPT !.pipeForm =
                     defaultPipeline(input.rangeVarStack, input.arg, input.defaultVal)]
    /\ UNCHANGED <<config, input, nonExprVars>>

NextDefault == ConvertDefaultFirst \/ ConvertDefaultPipe

SpecDefault == InitDefault /\ [][NextDefault]_vars

BothForms ==
    /\ DOMAIN result = {"firstForm", "pipeForm"}
    /\ result.firstForm.done /\ result.pipeForm.done

\* C17: for the same field and the same literal, `default v field` and
\* `field | default v` emit the same CUE expression and record the same
\* defaults, also when the field is relative to a dot rebound by range or
\* with.
C17_DefaultSymmetric ==
    BothForms =>
        /\ result.firstForm.expr = result.pipeForm.expr
        /\ result.firstForm.f.defaults = result.pipeForm.f.defaults

(***************************************************************************)
(* SpecWith: the walk of processNode over nested {{ with FIELD }} blocks   *)
(* and field actions.  The nodes are met one at a time.  job holds the     *)
(* converter's rangeVarStack and field references, the Go call stack of    *)
(* processWith (which branch is being walked, and for the properties the   *)
(* rangeVarStack on entry and the with's field), and the last step taken.  *)
(***************************************************************************)
MaxWithDepth == 2   \* nested with blocks
MaxWalk == 5        \* nodes and branch ends walked

WithFields == {<<"Values", "foo">>, <<"bar">>}
ActionFields == {<<"name">>, <<"Values", "a">>}
NoStep == [kind |-> "none", ident |-> <<>>, expr |-> "", refs |-> <<>>, entry |-> <<>>]

\* c.rangeVarStack = c.rangeVarStack[:len(c.rangeVarStack)-1]
popNothing(stack) == stack
popRangeVar(stack) == SubSeq(stack, 1, Len(stack) - 1)

\* withPipeContext for a field node
withPipeContext(stack, ident) ==
    IF Len(ident) > 0 /\ ident[1] \in DOMAIN ContextObjects
    THEN [helmObj |-> ident[1], basePath |-> Tail(ident)]
    ELSE IF Len(stack) > 0 /\ stack[Len(stack)].helmObj # ""
    THEN [helmObj |-> stack[Len(stack)].helmObj,
          basePath |-> stack[Len(stack)].basePath \o ident]
    ELSE [helmObj |-> "", basePath |-> <<>>]

\* conditionNodeToExpr, case *parse.FieldNode, under suppressRequired
conditionField(stack, f, ident) ==
    LET r == fieldToCUEInContextText(stack, f, ident, TRUE)
    IN  IF r.helmObj # "" /\ Len(ident) >= 2
        THEN trackFieldRef(r.f, Tail(ident), TRUE) ELSE r.f

InitWith ==
    /\ job = [rangeVarStack |-> <<>>, ctl |-> <<>>, f |-> NoFields, last |-> NoStep, steps |-> 0]
    /\ docs = <<>>
    /\ IdleEmit /\ IdleExpr /\ IdleHelpers /\ IdleTrees

\* processNode, case *parse.ActionNode, {{ FIELD }}: actionToCUE resolves
\* the field by fieldToCUEInContext
FieldAction ==
    /\ job.steps < MaxWalk
    /\ \E ident \in ActionFields :
         LET r == fieldToCUEInContextText(job.rangeVarStack, job.f, ident, FALSE)
         IN  job' = [job EXCEPT
                 !.f = IF r.helmObj # "" THEN trackFieldRef(r.f, Tail(ident), FALSE) ELSE r.f,
                 !.last = [NoStep EXCEPT !.kind = "field", !.ident = ident,
                                         !.expr = r.expr, !.refs = job.f.fieldRefs],
                 !.steps = @ + 1]
    /\ UNCHANGED <<emitVars, exprVars, ph, treeVars, docs>>

\* processWith up to processBodyNodes(n.List.Nodes): the condition, the raw
\* expression, the context and the push
WithEnter ==
    /\ job.steps < MaxWalk /\ Len(job.ctl) < MaxWithDepth
    /\ \E ident \in WithFields :
         LET tracked == conditionField(job.rangeVarStack, job.f, ident)
             raw == fieldToCUEInContextText(job.rangeVarStack, tracked, ident, TRUE)
             ctx == withPipeContext(job.rangeVarStack, ident)
         IN  job' = [job EXCEPT
                 !.f = raw.f,
                 !.rangeVarStack = Append(@, rangeContext(raw.expr, ctx.helmObj, ctx.basePath)),
                 !.ctl = Append(@, [branch |-> "body", entry |-> job.rangeVarStack,
                                    ident |-> ident]),
                 !.last = [NoStep EXCEPT !.kind = "enter"],
                 !.steps = @ + 1]
    /\ UNCHANGED <<emitVars, exprVars, ph, treeVars, docs>>

\* processWith after the body, n.ElseList not empty: the pop, the negated
\* guard and processBodyNodes(n.ElseList.Nodes)
WithElse ==
    /\ job.steps < MaxWalk
    /\ Len(job.ctl) > 0 /\ job.ctl[Len(job.ctl)].branch = "body"
    /\ job' = [job EXCEPT
           !.rangeVarStack = popRangeVar(@),
           !.ctl[Len(job.ctl)].branch = "else",
           !.last = [NoStep EXCEPT !.kind = "else"],
           !.steps = @ + 1]
    /\ UNCHANGED <<emitVars, exprVars, ph, treeVars, docs>>

\* processWith returns nil: after the else branch, or after the body and the
\* pop when there is no else branch
WithReturn ==
    /\ job.steps < MaxWalk
    /\ Len(job.ctl) > 0
    /\ LET top == job.ctl[Len(job.ctl)]
       IN  job' = [job EXCEPT
               !.rangeVarStack = IF top.branch = "body" THEN popRangeVar(@) ELSE @,
               !.ctl = SubSeq(@, 1, Len(@) - 1),
               !.last = [NoStep EXCEPT !.kind = "return", !.entry = top.entry],
               !.steps = @ + 1]
    /\ UNCHANGED <<emitVars, exprVars, ph, treeVars, docs>>

NextWith == FieldAction \/ WithEnter \/ WithElse \/ WithReturn

SpecWith == InitWith /\ [][NextWith]_vars

\* what a stack makes of a field: a context object by its name, another
\* field below the innermost binding of dot
ResolvedBy(stack, ident) ==
    IF ident[1] \in DOMAIN ContextObjects
    THEN JoinDots(<<ContextObjects[ident[1]]>> \o Tail(ident))
    ELSE IF Len(stack) = 0 THEN JoinDots(ident)
    ELSE JoinDots(<<stack[Len(stack)].cueExpr>> \o ident)
\* the context path of a field: its path in a context object, if it has one
PathIn(stack, ident) ==
    IF ident[1] \in DOMAIN ContextObjects
    THEN [helmObj |-> ident[1], basePath |-> Tail(ident)]
    ELSE IF Len(stack) > 0 /\ stack[Len(stack)].helmObj # ""
    THEN [helmObj |-> stack[Len(stack)].helmObj,
          basePath |-> stack[Len(stack)].basePath \o ident]
    ELSE [helmObj |-> "", basePath |-> <<>>]
\* dot bound to the with's expression, on top of the stack on entry
Rebound(frame) ==
    Append(frame.entry,
           rangeContext(ResolvedBy(frame.entry, frame.ident),
                        PathIn(frame.entry, frame.ident).helmObj,
                        PathIn(frame.entry, frame.ident).basePath))
InWith == job.ctl # <<>>
TopWith == job.ctl[Len(job.ctl)]
DotField == job.last.kind = "field" /\ job.last.ident[1] \notin DOMAIN ContextObjects

MaxBlockDepth == 2   \* nested blocks
MaxVarWalk == 5      \* nodes and block ends walked

VarNames == {"v", "w"}
BlockKinds == {"if", "with", "range"}
NoVarStep == [kind |-> "none", name |-> "", ok |-> TRUE, expr |-> ""]
\* the field a declaration at block depth d binds: .Values.d<d>
DeclField(d) == "d" \o ToString(d)
\* number of with and range blocks open: len(c.rangeVarStack)
RangeDepth(blocks) == Cardinality({k \in 1..Len(blocks) : blocks[k].kind # "if"})

InitVars ==
    /\ job = [localVars |-> <<>>, ctl |-> <<>>, rootDeclared |-> {}, exited |-> <<>>,
              last |-> NoVarStep, steps |-> 0]
    /\ docs = <<>>
    /\ IdleEmit /\ IdleExpr /\ IdleHelpers /\ IdleTrees

\* the declaration is noted in the innermost open block
Declared(blocks, v, expr) ==
    IF Len(blocks) = 0 THEN blocks
    ELSE [blocks EXCEPT ![Len(blocks)].declared = Put(@, [n \in {v} |-> expr])]
\* the variables in scope: text/template rejects a reference to any other
InScope == job.rootDeclared \cup UNION {DOMAIN job.ctl[k].declared : k \in 1..Len(job.ctl)}

\* processNode, case *parse.ActionNode with a declaration:
\* c.localVars[varName] = expr
DeclareVar ==
    /\ job.steps < MaxVarWalk
    /\ \E v \in VarNames :
         LET expr == fieldToCUE(DeclField(Len(job.ctl)))
         IN  job' = [job EXCEPT
                 !.localVars = Put(@, [n \in {v} |-> expr]),
                 !.ctl = Declared(job.ctl, v, expr),
                 !.rootDeclared = IF Len(job.ctl) = 0 THEN @ \cup {v} ELSE @,
                 !.exited = <<>>,
                 !.last = [NoVarStep EXCEPT !.kind = "declare", !.name = v, !.expr = expr],
                 !.steps = @ + 1]
    /\ UNCHANGED <<emitVars, exprVars, ph, treeVars, docs>>

\* actionToCUE, first command a variable: {{ $v }}
VarRef ==
    /\ job.steps < MaxVarWalk
    /\ \E v \in InScope :
         job' = [job EXCEPT
             !.last = IF v \in DOMAIN job.localVars
                      THEN [NoVarStep EXCEPT !.kind = "ref", !.name = v,
                                             !.expr = job.localVars[v]]
                      ELSE [NoVarStep EXCEPT !.kind = "ref", !.name = v, !.ok = FALSE],
             !.steps = @ + 1]
    /\ UNCHANGED <<emitVars, exprVars, ph, treeVars, docs>>

\* processIf, processWith and processRange up to the body; decl is the
\* variable declared in the pipe of a with or range, "" for none
BlockEnter ==
    /\ job.steps < MaxVarWalk /\ Len(job.ctl) < MaxBlockDepth
    /\ \E kind \in BlockKinds : \E decl \in (IF kind = "if" THEN {""} ELSE VarNames \cup {""}) :
         LET expr == IF kind = "with" THEN fieldToCUE("w")
                     ELSE "_range" \o ToString(RangeDepth(job.ctl))
             bound == IF decl = "" THEN <<>> ELSE [n \in {decl} |-> expr]
         IN  job' = [job EXCEPT
                 !.localVars = Put(@, bound),
                 !.ctl = Append(@, [kind |-> kind, decl |-> decl, declared |-> bound]),
                 !.exited = <<>>,
                 !.last = [NoVarStep EXCEPT !.kind = "enter"],
                 !.steps = @ + 1]
    /\ UNCHANGED <<emitVars, exprVars, ph, treeVars, docs>>

\* the end of processIf, processWith and processRange: with and range
\* delete the variables of n.Pipe.Decl
BlockExit ==
    /\ job.steps < MaxVarWalk /\ Len(job.ctl) > 0
    /\ LET top == job.ctl[Len(job.ctl)]
       IN  job' = [job EXCEPT
               !.localVars = IF top.kind # "if" /\ top.decl # ""
                             THEN Delete(@, {top.decl}) ELSE @,
               !.ctl = SubSeq(@, 1, Len(@) - 1),
               !.exited = top.declared,
               !.last = [NoVarStep EXCEPT !.kind = "exit"],
               !.steps = @ + 1]
    /\ UNCHANGED <<emitVars, exprVars, ph, treeVars, docs>>

NextVars == DeclareVar \/ VarRef \/ BlockEnter \/ BlockExit

SpecVars == InitVars /\ [][NextVars]_vars

\* C19: once a block is left, no variable declared in it (in its pipe or by
\* an action of its body) is still bound to what the block bound it to, and
\* a reference after the block does not resolve to that expression.
C19_LocalVarsLifetime ==
    /\ job.last.kind = "exit" =>
          \A v \in DOMAIN job.exited :
              ~(v \in DOMAIN job.localVars /\ job.localVars[v] = job.exited[v])
    /\ (job.last.kind = "ref" /\ job.last.ok /\ job.last.name \in DOMAIN job.exited) =>
          job.last.expr # job.exited[job.last.name]

(***************************************************************************)
(* SpecGuards: processNodes over a root node list of text, comments,       *)
(* actions, range blocks and if blocks (condition a at root, b inside).    *)
(* The result holds topLevelGuards and the conditions emitted as inline    *)
(* `if` blocks, in order.                                                  *)
(***************************************************************************)
MaxRootNodes == 3   \* nodes of the root list
MaxBodyNodes == 2   \* nodes of an if body

RootNode(kind) == [kind |-> kind, cond |-> "", body |-> <<>>]
IfNode(cond, body) == [kind |-> "if", cond |-> cond, body |-> body]
\* text is a TextNode with non-space characters, space one without
BodyNodes == {RootNode("space"), RootNode("text"), IfNode("b", <<RootNode("text")>>)}
RootNodes ==
    {RootNode(k) : k \in {"space", "text", "comment", "action", "range"}}
        \cup {IfNode("a", body) : body \in SeqsUpTo(BodyNodes, MaxBodyNodes)}

\* detectTopLevelIf from node k on, ifIdx being the if found so far (0 for
\* nil); returns the index of the if node, 0 for nil
RECURSIVE detectLoop(_, _, _)
detectLoop(nodeList, k, ifIdx) ==
    IF k > Len(nodeList) THEN ifIdx
    ELSE IF nodeList[k].kind = "text" THEN 0
    ELSE IF nodeList[k].kind \in {"space", "comment"} THEN detectLoop(nodeList, k + 1, ifIdx)
    ELSE IF nodeList[k].kind = "if"
    THEN (IF ifIdx # 0 THEN 0 ELSE detectLoop(nodeList, k + 1, k))
    ELSE 0
\* the first if node of the list, whatever stands around it
detectFirstIf(nodeList) ==
    IF \E k \in 1..Len(nodeList) : nodeList[k].kind = "if"
    THEN CHOOSE k \in 1..Len(nodeList) :
             nodeList[k].kind = "if" /\ \A j \in 1..(k - 1) : nodeList[j].kind # "if"
    ELSE 0
detectTopLevelIf(nodeList) == detectLoop(nodeList, 1, 0)

\* processBodyNodes / processNode: every if is emitted inline (processIf)
RECURSIVE inlineIfs(_, _)
inlineIfs(nodeList, k) ==
    IF k > Len(nodeList) THEN <<>>
    ELSE IF nodeList[k].kind = "if"
    THEN <<nodeList[k].cond>> \o inlineIfs(nodeList[k].body, 1) \o inlineIfs(nodeList, k + 1)
    ELSE inlineIfs(nodeList, k + 1)

\* processNodes
RECURSIVE processNodes(_, _)
processNodes(out, nodeList) ==
    LET ifIdx == detectTopLevelIf(nodeList)
    IN  IF ifIdx # 0
        THEN processNodes([out EXCEPT !.topLevelGuards = Append(@, nodeList[ifIdx].cond)],
                          nodeList[ifIdx].body)
        ELSE [out EXCEPT !.inline = @ \o inlineIfs(nodeList, 1)]

InitGuards ==
    /\ config = HelmConfig
    /\ input \in [root : SeqsUpTo(RootNodes, MaxRootNodes)]
    /\ result = NoResult
    /\ IdleEmit /\ IdleHelpers /\ IdleTrees /\ IdleJob

\* convertStructured, Phase 1: c.processNodes(root.Nodes)
ProcessRoot ==
    /\ result = NoResult
    /\ result' = processNodes([done |-> TRUE, topLevelGuards |-> <<>>, inline |-> <<>>],
                              input.root)
    /\ UNCHANGED <<config, input, nonExprVars>>

SpecGuards == InitGuards /\ [][ProcessRoot]_vars

RootKinds == {input.root[k].kind : k \in 1..Len(input.root)}
RootIfs == {k \in 1..Len(input.root) : input.root[k].kind = "if"}
\* whitespace-only text, comments and exactly one if
GuardShape == RootKinds \subseteq {"space", "comment", "if"} /\ Cardinality(RootIfs) = 1
Count(q, x) == Cardinality({k \in 1..Len(q) : q[k] = x})

\* C20: when the root list is whitespace-only text, comments and exactly
\* one if, the condition of that if is the first top-level guard and no
\* inline `if` is emitted for it; with any other root list there is no
\* top-level guard and every root if is emitted inline.
C20_TopLevelGuard ==
    result # NoResult =>
        IF GuardShape
        THEN /\ Len(result.topLevelGuards) >= 1
             /\ result.topLevelGuards[1] = "a"
             /\ Count(result.inline, "a") = 0
        ELSE /\ result.topLevelGuards = <<>>
             /\ Count(result.inline, "a") = Cardinality(RootIfs)

\* the guard was extracted from a root list of a comment, whitespace and an if
C20_Witness ==
    /\ result # NoResult /\ GuardShape
    /\ RootKinds = {"space", "comment", "if"}
    /\ result.topLevelGuards # <<>>

(***************************************************************************)
(* SpecLines: the walker of SpecEmit, with job recording, for the last     *)
(* line of text walked, the line, and the frame stack and the output just  *)
(* before and just after emitTextNode closed frames for it.                *)
(***************************************************************************)
MaxLineWalk == 4   \* template nodes walked

NoLine == [seen |-> FALSE, line |-> [indent |-> 0, kind |-> "kv"],
           before |-> <<>>, after |-> <<>>, outBefore |-> <<>>, outAfter |-> <<>>]

InitLines ==
    /\ c = NewConverter /\ ctl = <<>> /\ nodes = 0 /\ phase = "walk"
    /\ job = NoLine /\ docs = <<>>
    /\ IdleExpr /\ IdleHelpers /\ IdleTrees

\* case *parse.TextNode, a text of one line
TextLine ==
    /\ phase = "walk" /\ nodes < MaxLineWalk
    /\ \E t \in TextNodes :
        /\ Len(t.lines) = 1
        /\ AgreesWithPeek(t)
        /\ c' = emitTextNode(c, t)
        /\ LET line == t.lines[1]
               c2 == resolveForLine(c, line.indent)
               c4 == closeForLine(c2, line)
           IN  job' = [seen |-> TRUE, line |-> line, before |-> c2.stack, after |-> c4.stack,
                       outBefore |-> c2.out, outAfter |-> c4.out]
    /\ ctl' = SawText(ctl)
    /\ nodes' = nodes + 1
    /\ UNCHANGED <<phase, exprVars, ph, treeVars, docs>>

NextLines ==
    \/ TextLine
    \/ (nodes < MaxLineWalk /\ EmitAction)
    \/ (nodes < MaxLineWalk /\ ProcessIf)
    \/ (nodes < MaxLineWalk /\ ProcessWith)
    \/ (nodes < MaxLineWalk /\ ProcessRange)
    \/ EndBody \/ ElseBranch \/ EndElse
    \/ Finish

SpecLines == InitLines /\ [][NextLines]_vars

LineSeen == DOMAIN job = DOMAIN NoLine /\ job.seen
\* the frames of a stack with a yamlIndent below y, in order
RECURSIVE Shallower(_, _)
Shallower(stk, y) ==
    IF stk = <<>> THEN <<>>
    ELSE IF stk[1].yamlIndent < y THEN <<stk[1]>> \o Shallower(Tail(stk), y)
    ELSE Shallower(Tail(stk), y)
\* the longest prefix of a stack that is empty or ends in a frame with a
\* yamlIndent of at most y
RECURSIVE KeptFor(_, _)
KeptFor(stk, y) ==
    IF stk = <<>> \/ Top(stk).yamlIndent <= y THEN stk ELSE KeptFor(Pop(stk), y)
\* the closers of the frames stk[from..Len(stk)], innermost first
RECURSIVE Closers(_, _, _)
Closers(out, stk, from) ==
    IF Len(stk) < from THEN out
    ELSE Closers(WriteString(out, IF Top(stk).isList THEN "]" ELSE "}"), Pop(stk), from)

MaxStepWalk == 4   \* template nodes walked

NoStepYet ==
    [ev |-> "none", y |-> -1, pre |-> NewConverter, mid |-> NewConverter, saved |-> -1]

\* saved: the savedStackLen of the innermost running handler before the step
Step(ev, y, mid) ==
    [ev |-> ev, y |-> y, pre |-> c, mid |-> mid,
     saved |-> IF ctl = <<>> THEN -1 ELSE Top(ctl).savedStackLen]

InitSteps ==
    /\ c = NewConverter /\ ctl = <<>> /\ nodes = 0 /\ phase = "walk"
    /\ job = NoStepYet /\ docs = <<>>
    /\ IdleExpr /\ IdleHelpers /\ IdleTrees

stepFrame == <<exprVars, ph, treeVars, docs>>

\* case *parse.TextNode, a text of one line
StepText ==
    /\ phase = "walk" /\ nodes < MaxStepWalk
    /\ \E t \in TextNodes :
        /\ Len(t.lines) = 1
        /\ AgreesWithPeek(t)
        /\ c' = emitTextNode(c, t)
        /\ job' = Step("text", t.lines[1].indent, resolveForLine(c, t.lines[1].indent))
    /\ ctl' = SawText(ctl)
    /\ nodes' = nodes + 1
    /\ UNCHANGED <<phase, stepFrame>>

\* case *parse.ActionNode
StepAction ==
    /\ phase = "walk" /\ nodes < MaxStepWalk
    /\ c' = emitActionExpr(c)
    /\ job' = Step("action", -1, flushDeferred(flushPendingAction(c)))
    /\ nodes' = nodes + 1
    /\ UNCHANGED <<ctl, phase, stepFrame>>

\* case *parse.IfNode, *parse.WithNode, *parse.RangeNode
StepOpen(kind) ==
    /\ phase = "walk" /\ nodes < MaxStepWalk /\ Len(ctl) < MaxNest
    /\ kind = "if" => (ctl # <<>> \/ nodes > 0)
    /\ \E b \in BodyShapes :
        /\ c' = [openGuard(c, b.indent, b.isList) EXCEPT
                    !.inRangeBody = IF kind = "range" THEN TRUE ELSE @]
        /\ ctl' = Append(ctl, Handler(kind, c, b.indent, b.isList))
        /\ job' = Step(kind, b.indent, resolveForBody(flushPendingAction(c), b.indent))
    /\ nodes' = nodes + 1
    /\ UNCHANGED <<phase, stepFrame>>

StepIf == StepOpen("if")
StepWith == StepOpen("with")
StepRange == StepOpen("range")

StepEndBody ==
    /\ phase = "walk" /\ ctl # <<>> /\ ~Top(ctl).inElse /\ PeekSatisfied
    /\ c' = closeBody(c, Top(ctl))
    /\ ctl' = Pop(ctl)
    /\ job' = Step("endBody", -1, flushDeferred(flushPendingAction(c)))
    /\ UNCHANGED <<nodes, phase, stepFrame>>

StepElse ==
    /\ phase = "walk" /\ ctl # <<>> /\ ~Top(ctl).inElse /\ PeekSatisfied
    /\ ~Top(ctl).isRange
    /\ \E b \in BodyShapes :
        /\ c' = openElse(closeBody(c, Top(ctl)), Top(ctl), b.indent, b.isList)
        /\ ctl' = [ctl EXCEPT ![Len(ctl)].inElse = TRUE,
                              ![Len(ctl)].bodyIndent = b.indent,
                              ![Len(ctl)].isList = b.isList,
                              ![Len(ctl)].seenText = FALSE]
    /\ job' = Step("else", -1, flushDeferred(flushPendingAction(c)))
    /\ UNCHANGED <<nodes, phase, stepFrame>>

StepEndElse ==
    /\ phase = "walk" /\ ctl # <<>> /\ Top(ctl).inElse /\ PeekSatisfied
    /\ c' = closeElse(c, Top(ctl))
    /\ ctl' = Pop(ctl)
    /\ job' = Step("endElse", -1, flushDeferred(flushPendingAction(c)))
    /\ UNCHANGED <<nodes, phase, stepFrame>>

StepFinish ==
    /\ phase = "walk" /\ ctl = <<>>
    /\ c' = closeBlocksTo(flushDeferred(flushPendingAction(c)), -1)
    /\ phase' = "done"
    /\ job' = Step("finish", -1, flushDeferred(flushPendingAction(c)))
    /\ UNCHANGED <<ctl, nodes, stepFrame>>

NextSteps ==
    \/ StepText \/ StepAction
    \/ StepIf \/ StepWith \/ StepRange
    \/ StepEndBody \/ StepElse \/ StepEndElse
    \/ StepFinish

SpecSteps == InitSteps /\ [][NextSteps]_vars

StepSeen == DOMAIN job = DOMAIN NoStepYet /\ job.ev # "none"
\* the step found a deferred key-value
HadDeferred == StepSeen /\ job.pre.deferredKV.on
\* the step saw a line (of text, or the first of a body) deeper than the key
SawDeeper ==
    /\ job.ev \in {"text", "if", "with", "range"}
    /\ job.y > job.pre.deferredKV.indent
\* key: value was written and no frame touched
AsLeaf == job.mid.stack = job.pre.stack /\ job.mid.out = job.pre.out
\* key: { value was written and its frame pushed on the frames that were open
AsBlock ==
    /\ job.mid.stack = Append(job.pre.stack,
                              Frame(job.y, job.pre.deferredKV.cueInd + 1, FALSE, FALSE))
    /\ job.mid.out = WriteString(job.pre.out, "{")

AtBoundary ==
    StepSeen /\ job.ev \in {"if", "with", "range", "endBody", "else", "endElse", "finish"}
\* no pending action, no pending key or list item, no deferred key-value
NothingPending(cv) ==
    /\ cv.pendingActionExpr = ""
    /\ cv.state = stateNormal
    /\ ~cv.deferredKV.on

\* C23: at every block boundary (entry to and exit from a body or an else
\* body, end of input) no emitter state is pending: the pending action, the
\* pending key and the deferred key-value have been written or are empty.
C23_BoundaryFlushed == AtBoundary => NothingPending(c)

\* a handler returned: its body, or its else body, ended
Returned == StepSeen /\ job.ev \in {"endBody", "endElse"}

\* C24: the frame stack is saved before a body and restored after it: while
\* a body is processed every frame that was open when the guard was written
\* (and the frame of the body) stays on the stack, and when the handler
\* returns the stack is as long as it was when the guard was written.
C24_StackRestored ==
    /\ \A k \in DOMAIN ctl : Len(c.stack) > ctl[k].savedStackLen
    /\ Returned => /\ Len(job.pre.stack) > job.saved
                   /\ c.stack = SubSeq(job.pre.stack, 1, job.saved)

(***************************************************************************)
(* SpecModes: the deferred states of the emitter, with inline and flow     *)
(* accumulation.  The converter c is NewConverter with the fields          *)
(* inlineParts and flowParts (TRUE for non-nil) and nextNodeIsInline; the  *)
(* frame stack stays empty, since no deferred state is set or cleared by   *)
(* the indents.  A text node is the sequence of the segments that its      *)
(* newlines separate, each abstracted to what emitTextNode tests of it,    *)
(* and closes: whether the brackets of a flow collection under             *)
(* accumulation close in it (segs then describes what follows them; it is  *)
(* read only during a flow accumulation).                                  *)
(* phase is the kind of the node walked next ("none" at the end of a node  *)
(* list); ctl holds, for each running handler, its savedState, whether it  *)
(* walks its else list and the kind of the node after the block.           *)
(***************************************************************************)
MaxModeNodes == 3   \* template nodes walked
MaxSegs == 2        \* segments of a text node
MaxModeNest == 2    \* blocks nested in each other

\*   blank            whitespace only
\*   dyn, dynval      ":" or ": ", and ": value"
\*   comment          # ...
\*   flow             {a: 1} or [a, b]
\*   flowstart        [a,                flowstartkv      {a:
\*   kvblock          key: |             kvempty          key: (trailing space)
\*   kvflowstart      key: [a,           kv               key: value
\*   key              key:               bare             value
\*   itemflow         - [a, b]           itemflowstart    - [a,
\*   itemflowstartkv  - {a:              itemkvempty      - key: (trailing space)
\*   itemkvflowstart  - key: [a,         itemkv           - key: value
\*   itemkey          - key:             dash             "- "
\*   item             - value
SegKinds ==
    {"blank", "dyn", "dynval", "comment", "flow", "flowstart", "flowstartkv",
     "kvblock", "kvempty", "kvflowstart", "kv", "key", "bare",
     "itemflow", "itemflowstart", "itemflowstartkv", "itemkvempty",
     "itemkvflowstart", "itemkv", "itemkey", "dash", "item"}

ModeTexts == [segs : UNION {[1..k -> SegKinds] : k \in 1..MaxSegs}, closes : BOOLEAN]

NodeKinds == {"text", "action", "decl", "comment", "block"}
isInlineNode(kind) == kind \in {"text", "action", "decl"}

NewModeConverter ==
    [stack |-> <<>>, out |-> <<>>, state |-> stateNormal,
     pendingKey |-> "", pendingKeyInd |-> 0,
     deferredKV |-> NoDeferred, pendingActionExpr |-> "",
     inRangeBody |-> FALSE,
     inlineParts |-> FALSE, flowParts |-> FALSE, nextNodeIsInline |-> FALSE]

finalizeInline(cv) == [cv EXCEPT !.inlineParts = FALSE]
finalizeFlow(cv) == [cv EXCEPT !.flowParts = FALSE]
startFlowAccum(cv) == [cv EXCEPT !.flowParts = TRUE]
startInline(cv) == [cv EXCEPT !.inlineParts = TRUE]

AllBlank(segs) == \A i \in 1..Len(segs) : segs[i] = "blank"

\* emitTextNode 1413-1467 with processListItem and processRangeListItem:
\* what the shape of the line sets
classifyLine(cv, kind, isLastLine, continuesInline) ==
    CASE kind \in {"kvblock", "key", "itemkey"} -> SetPending(cv, "k", 0)
      [] kind \in {"kvempty", "itemkvempty"} ->
            IF isLastLine THEN SetPending(cv, "k", 0) ELSE cv
      [] kind = "dash" -> IF isLastLine THEN SetPending(cv, "", 0) ELSE cv
      [] kind = "dyn" -> SetPending(cv, "", 0)
      [] kind \in {"flowstart", "kvflowstart", "itemflowstart", "itemkvflowstart"} ->
            IF continuesInline THEN startFlowAccum(cv) ELSE cv
      [] kind \in {"flowstartkv", "itemflowstartkv"} ->
            IF continuesInline THEN startFlowAccum(cv)
            ELSE IF isLastLine THEN SetPending(cv, "k", 0) ELSE cv
      [] kind \in {"kv", "bare", "dynval", "item"} ->
            IF continuesInline THEN startInline(cv) ELSE cv
      [] OTHER -> cv

\* one iteration of the line loop of emitTextNode, lines 1324-1468
modeLine(cv, kind, isLastLine) ==
    IF kind = "blank" THEN cv
    ELSE IF cv.pendingActionExpr # "" /\ kind = "dyn"
    THEN [cv EXCEPT !.state = statePendingKey, !.pendingKey = "(e)",
                    !.pendingActionExpr = ""]
    ELSE IF cv.pendingActionExpr # "" /\ kind = "dynval"
    THEN [cv EXCEPT !.state = stateNormal, !.pendingKey = "",
                    !.pendingActionExpr = ""]
    ELSE LET c2 == flushDeferred(flushPendingAction(cv))
             c3 == IF c2.state = statePendingKey
                   THEN [c2 EXCEPT !.state = stateNormal, !.pendingKey = ""]
                   ELSE c2
         IN  IF kind = "comment" THEN c3
             ELSE classifyLine(c3, kind, isLastLine, isLastLine /\ cv.nextNodeIsInline)

RECURSIVE modeLines(_, _, _)
modeLines(cv, segs, i) ==
    IF i > Len(segs) THEN cv
    ELSE modeLines(modeLine(cv, segs[i], i = Len(segs)), segs, i + 1)

\* an action emitted during inline accumulation is kept as pending as well
emitActionKeepsPending(cv) ==
    IF cv.flowParts THEN cv
    ELSE IF cv.inlineParts THEN [cv EXCEPT !.pendingActionExpr = "e"]
    ELSE emitActionExpr(cv)

\* emitActionExpr, lines 1813-1862
emitActionMode(cv) ==
    IF cv.flowParts THEN cv
    ELSE IF cv.inlineParts THEN cv
    ELSE emitActionExpr(cv)

\* emitTextNode, lines 1264-1469
emitTextMode(cv, t) ==
    LET inl == cv.inlineParts
        c1 == IF inl THEN flushPendingAction(cv) ELSE cv
        wholeInline == inl /\ Len(t.segs) = 1
        c2 == IF inl /\ ~wholeInline THEN finalizeInline(c1) ELSE c1
        segs == IF inl /\ ~wholeInline THEN <<"blank">> \o Tail(t.segs) ELSE t.segs
    IN  IF wholeInline THEN c1
        ELSE IF inl /\ AllBlank(segs) THEN c2
        ELSE IF c2.flowParts
        THEN IF t.closes
             THEN IF AllBlank(segs) THEN finalizeFlow(c2)
                  ELSE modeLines(finalizeFlow(c2), segs, 1)
             ELSE c2
        ELSE modeLines(c2, segs, 1)

\* processIf 1866-1918, processWith 1994-2064, processRange 2224-2310
openMode(cv) ==
    LET c1 == flushDeferred(flushPendingAction(finalizeFlow(finalizeInline(cv))))
    IN  IF c1.state = statePendingKey
        THEN IF c1.pendingKey = "" THEN [c1 EXCEPT !.state = stateNormal]
             ELSE [c1 EXCEPT !.state = stateNormal, !.pendingKey = ""]
        ELSE c1

\* lines 1934-1937, 1973-1976 and 411-414
flushAll(cv) == flushDeferred(flushPendingAction(finalizeFlow(finalizeInline(cv))))

InitModes ==
    /\ c = NewModeConverter /\ ctl = <<>> /\ nodes = 0
    /\ phase \in NodeKinds
    /\ IdleExpr /\ IdleHelpers /\ IdleTrees /\ IdleJob

\* processNodes 1697-1702 and processBodyNodes 2214-2219: nextNodeIsInline
\* is set from the node that follows, then the node is processed
Following(nn) == nn \in NodeKinds \cup {"none"}
Announce(cv, nn) == [cv EXCEPT !.nextNodeIsInline = nn # "none" /\ isInlineNode(nn)]

ModeText ==
    /\ phase = "text" /\ nodes < MaxModeNodes
    /\ \E t \in ModeTexts, nn \in NodeKinds \cup {"none"} :
        /\ t.closes => c.flowParts
        /\ c' = emitTextMode(Announce(c, nn), t)
        /\ phase' = nn
    /\ nodes' = nodes + 1
    /\ UNCHANGED ctl
    /\ UNCHANGED nonEmitVars

ModeAction ==
    /\ phase = "action" /\ nodes < MaxModeNodes
    /\ \E nn \in NodeKinds \cup {"none"} :
        /\ c' = emitActionMode(Announce(c, nn))
        /\ phase' = nn
    /\ nodes' = nodes + 1
    /\ UNCHANGED ctl
    /\ UNCHANGED nonEmitVars

\* an action that declares a variable, or a comment node
ModeSilent ==
    /\ phase \in {"decl", "comment"} /\ nodes < MaxModeNodes
    /\ \E nn \in NodeKinds \cup {"none"} :
        /\ c' = Announce(c, nn)
        /\ phase' = nn
    /\ nodes' = nodes + 1
    /\ UNCHANGED ctl
    /\ UNCHANGED nonEmitVars

ModeOpen ==
    /\ phase = "block" /\ nodes < MaxModeNodes /\ Len(ctl) < MaxModeNest
    /\ \E nn \in NodeKinds \cup {"none"}, first \in NodeKinds \cup {"none"},
          isRange \in BOOLEAN :
        /\ LET c1 == openMode(Announce(c, nn))
           IN  /\ c' = [c1 EXCEPT !.state = stateNormal]
               /\ ctl' = Append(ctl, [savedState |-> c1.state, inElse |-> FALSE,
                                      isRange |-> isRange, after |-> nn])
        /\ phase' = first
    /\ nodes' = nodes + 1
    /\ UNCHANGED nonEmitVars

ModeEndBody ==
    /\ phase = "none" /\ ctl # <<>> /\ ~Top(ctl).inElse
    /\ c' = [flushAll(c) EXCEPT !.state = Top(ctl).savedState]
    /\ phase' = Top(ctl).after
    /\ ctl' = Pop(ctl)
    /\ UNCHANGED nodes
    /\ UNCHANGED nonEmitVars

ModeElse ==
    /\ phase = "none" /\ ctl # <<>> /\ ~Top(ctl).inElse /\ ~Top(ctl).isRange
    /\ c' = [flushAll(c) EXCEPT !.state = Top(ctl).savedState]
    /\ phase' \in NodeKinds
    /\ ctl' = [ctl EXCEPT ![Len(ctl)].inElse = TRUE]
    /\ UNCHANGED nodes
    /\ UNCHANGED nonEmitVars

ModeEndElse ==
    /\ phase = "none" /\ ctl # <<>> /\ Top(ctl).inElse
    /\ c' = flushAll(c)
    /\ phase' = Top(ctl).after
    /\ ctl' = Pop(ctl)
    /\ UNCHANGED nodes
    /\ UNCHANGED nonEmitVars

ModeFinish ==
    /\ phase = "none" /\ ctl = <<>>
    /\ c' = flushAll(c)
    /\ phase' = "done"
    /\ UNCHANGED <<ctl, nodes>>
    /\ UNCHANGED nonEmitVars

NextModes ==
    \/ ModeText \/ ModeAction \/ ModeSilent
    \/ ModeOpen \/ ModeEndBody \/ ModeElse \/ ModeEndElse
    \/ ModeFinish

SpecModes == InitModes /\ [][NextModes]_vars

HasModes == "inlineParts" \in DOMAIN c
\* the deferred states that are active
ActiveModes ==
    {m \in {"PendingKey", "PendingAction", "DeferredKV", "InlineAccum", "FlowAccum"} :
        CASE m = "PendingKey" -> c.state = statePendingKey
          [] m = "PendingAction" -> c.pendingActionExpr # ""
          [] m = "DeferredKV" -> c.deferredKV.on
          [] m = "InlineAccum" -> c.inlineParts
          [] m = "FlowAccum" -> c.flowParts}

\* C25: at every point of a conversion at most one of the deferred states
\* PendingKey, PendingAction, DeferredKV, InlineAccum and FlowAccum is
\* active.
C25_OneDeferredState == HasModes => Cardinality(ActiveModes) <= 1

\* an action was emitted into an inline accumulation inside a block
C25_Witness ==
    /\ HasModes /\ ActiveModes = {"InlineAccum"}
    /\ ctl # <<>> /\ phase = "text" /\ nodes >= 3

(***************************************************************************)
(* The rule of the bare dot, position by position (SpecExpr).              *)
(***************************************************************************)
\* the dot as the value of the action, as the argument of printf, and as
\* the operand of range
DotPositions ==
    {[pos |-> "action", pipe |-> <<Cmd("", Leaf("dot"))>>],
     [pos |-> "action", pipe |-> <<Cmd("printf", Leaf("dot"))>>],
     [pos |-> "range", pipe |-> <<Cmd("", Leaf("dot"))>>]}
DotPosition == Converted /\ [pos |-> input.pos, pipe |-> input.pipe] \in DotPositions
\* the top of the range/with stack, else Config.RootExpr, else nothing
DotResolves == input.rangeVarStack # <<>> \/ config.RootExpr # ""

\* C26: a bare dot resolves by the same rule in every value position: it is
\* translated when the range/with stack is non-empty or Config.RootExpr is
\* set, and is the error "{{ . }} outside range/with not supported" otherwise,
\* whether it is the action's value, a function argument or the operand of
\* range.
C26_DotSameRule ==
    (DotPosition /\ (input.pipe[1].fn = "printf" => isCoreFunc(Conv, "printf"))) =>
        IF DotResolves THEN result.ok /\ result.dot
        ELSE ~result.ok /\ result.msg = DotMsg

(***************************************************************************)
(* SpecAssemble: assembleSingleFile run twice on the result of one         *)
(* conversion.  Of the result the model keeps usedHelpers, the map from    *)
(* the names of the utility helpers the template used to their             *)
(* definitions, known by its key set; of the output it keeps the import    *)
(* block and the helper definitions in the order they are written.  A      *)
(* range over a Go map visits the keys in an order the language leaves     *)
(* open and the runtime varies from one loop to the next.                  *)
(***************************************************************************)
MaxUsedHelpers == 3   \* utility helpers a template uses
MaxRuns == 2          \* runs of assembleSingleFile compared

UtilityHelpers == {"_trunc", "_last", "_uniq", "_compact", "_semverCompare", "_tplContext"}

\* HelperDef.Imports
HelperImports(h) ==
    CASE h = "_trunc" -> {"strings"}
      [] h = "_uniq" -> {"list"}
      [] h = "_semverCompare" -> {"strings", "strconv"}
      [] OTHER -> {}

\* the packages in the order of slices.Sort
SortedPkgs == <<"list", "strconv", "strings">>
SortPkgs(S) == SelectSeq(SortedPkgs, LAMBDA x : x \in S)

\* the orders in which a range over a map with the key set S can visit it
MapOrders(S) ==
    {q \in [1..Cardinality(S) -> S] : \A i, j \in 1..Cardinality(S) : q[i] = q[j] => i = j}

NoAssembly == [usedHelpers |-> {}, runs |-> <<>>]

InitAssemble ==
    /\ job \in [usedHelpers : {S \in SUBSET UtilityHelpers : Cardinality(S) <= MaxUsedHelpers},
                runs : {<<>>}]
    /\ docs = <<>>
    /\ IdleEmit /\ IdleExpr /\ IdleHelpers /\ IdleTrees

\* lines 440-468: the imports are collected and written sorted;
\* lines 586-590: the helper definitions are written as the map is ranged over
assembleSingleFile(usedHelpers, order) ==
    [imports |-> SortPkgs(UNION {HelperImports(h) : h \in usedHelpers}),
     defs |-> order]

AssembleSingleFile ==
    /\ Len(job.runs) < MaxRuns
    /\ \E order \in MapOrders(job.usedHelpers) :
        job' = [job EXCEPT !.runs = Append(@, assembleSingleFile(job.usedHelpers, order))]
    /\ UNCHANGED <<emitVars, exprVars, ph, treeVars, docs>>

NextAssemble == AssembleSingleFile

SpecAssemble == InitAssemble /\ [][NextAssemble]_vars

Assembled == DOMAIN job = DOMAIN NoAssembly

\* C27: Convert is deterministic: two runs on the same config, input and
\* helpers give the same output, also when the template uses two or more
\* utility helper definitions.
C27_Deterministic ==
    (Assembled /\ Len(job.runs) >= 2) => job.runs[1] = job.runs[2]

(***************************************************************************)
(* SpecNames: Phase 0 and Phase 0b of convertStructured over the names of  *)
(* the helper templates.  A template name is the sequence of its runes; a  *)
(* helper body is known by the name of the define block it was written in. *)
(***************************************************************************)
MaxNameLen == 2    \* runes of a template name
MaxDefines == 2    \* define blocks in the tree set

Runes == {"a", "b", ".", "-"}
\* the runes in code-point order: '-' 45, '.' 46, 'a' 97, 'b' 98
RuneRank == [r \in Runes |-> CASE r = "-" -> 1 [] r = "." -> 2 [] r = "a" -> 3 [] r = "b" -> 4]
isAlnum(ch) == ch \in {"a", "b"}

TemplateNames == UNION {[1..k -> Runes] : k \in 1..MaxNameLen}

\* helperToCUEName, by rune
helperToCUENameRunes(name) ==
    <<"_">> \o [i \in 1..Len(name) |-> IF isAlnum(name[i]) THEN name[i] ELSE "_"]

\* strings.Compare(a, b) < 0
RECURSIVE NameLess(_, _)
NameLess(a, b) ==
    IF b = <<>> THEN FALSE
    ELSE IF a = <<>> THEN TRUE
    ELSE IF Head(a) = Head(b) THEN NameLess(Tail(a), Tail(b))
    ELSE RuneRank[Head(a)] < RuneRank[Head(b)]

\* slices.Sort of a set of names
RECURSIVE SortNames(_)
SortNames(S) ==
    IF S = {} THEN <<>>
    ELSE LET m == CHOOSE x \in S : \A y \in S \ {x} : NameLess(x, y)
         IN  <<m>> \o SortNames(S \ {m})

NoNames == [treeSet |-> {}, helperExprs |-> <<>>, helperOrder |-> <<>>,
            helperCUE |-> <<>>, at |-> "new"]

InitNames ==
    /\ job \in [treeSet : {S \in SUBSET TemplateNames : Cardinality(S) <= MaxDefines},
                helperExprs : {<<>>}, helperOrder : {<<>>}, helperCUE : {<<>>},
                at : {"new"}]
    /\ docs = <<>>
    /\ IdleEmit /\ IdleExpr /\ IdleHelpers /\ IdleTrees

\* Phase 0, lines 379-388
RegisterHelpers ==
    /\ job.at = "new"
    /\ job' = [job EXCEPT
                  !.helperExprs = [n \in job.treeSet |-> helperToCUENameRunes(n)],
                  !.helperOrder = SortNames(job.treeSet),
                  !.at = "registered"]
    /\ UNCHANGED <<emitVars, exprVars, ph, treeVars, docs>>

\* Phase 0b, lines 390-405: helperCUE after the bodies of order[i..] are stored
RECURSIVE storeBodies(_, _, _, _)
storeBodies(helperCUE, helperExprs, order, i) ==
    IF i > Len(order) THEN helperCUE
    ELSE storeBodies([x \in {helperExprs[order[i]]} |-> order[i]] @@ helperCUE,
                     helperExprs, order, i + 1)

ConvertHelperBodies ==
    /\ job.at = "registered"
    /\ job' = [job EXCEPT
                  !.helperCUE = storeBodies(<<>>, job.helperExprs, job.helperOrder, 1),
                  !.at = "converted"]
    /\ UNCHANGED <<emitVars, exprVars, ph, treeVars, docs>>

NextNames == RegisterHelpers \/ ConvertHelperBodies

SpecNames == InitNames /\ [][NextNames]_vars

NamesConverted == DOMAIN job = DOMAIN NoNames /\ job.at = "converted"

\* C28: within one conversion distinct helper template names are assigned
\* distinct CUE hidden field names, so the field of a helper holds the body
\* of that helper and of no other.
C28_DistinctCUENames ==
    NamesConverted =>
        /\ \A n1, n2 \in job.treeSet : n1 # n2 => job.helperExprs[n1] # job.helperExprs[n2]
        /\ \A n \in job.treeSet : job.helperCUE[job.helperExprs[n]] = n

(***************************************************************************)
(* SpecElse: processNodes over a root list whose if nodes have an else     *)
(* list.  The result holds topLevelGuards and, in order, what the body     *)
(* emits: the texts ("t" in an if list, "e" in an else list, "r" at the    *)
(* root), the guards `if a {` and `if !a {` and their closers.             *)
(***************************************************************************)
MaxElseRoot == 3   \* nodes of the root list

Node(kind) == [kind |-> kind, text |-> "", List |-> <<>>, ElseList |-> <<>>]
Text(x) == [kind |-> "text", text |-> x, List |-> <<>>, ElseList |-> <<>>]
IfElse(list, elseList) == [kind |-> "if", text |-> "", List |-> list, ElseList |-> elseList]

IfLists == {<<Text("t")>>, <<Node("space"), Text("t")>>}
ElseLists == {<<>>, <<Text("e")>>, <<Node("space")>>}
ElseRootNodes ==
    {Node("space"), Node("comment"), Node("action"), Text("r")}
        \cup {IfElse(l, el) : l \in IfLists, el \in ElseLists}

\* processBodyNodes over nodes without nested blocks; processIf writes the
\* guard, the body and, for a non-empty ElseList (line 1953), the negated
\* guard and the else body
RECURSIVE emitNodes(_, _)
emitNodes(nodeList, k) ==
    IF k > Len(nodeList) THEN <<>>
    ELSE LET n == nodeList[k]
             here ==
                CASE n.kind = "text" -> <<n.text>>
                  [] n.kind = "action" -> <<"expr">>
                  [] n.kind = "if" ->
                        <<"if a {">> \o emitNodes(n.List, 1) \o <<"}">> \o
                        (IF Len(n.ElseList) > 0
                         THEN <<"if !a {">> \o emitNodes(n.ElseList, 1) \o <<"}">>
                         ELSE <<>>)
                  [] OTHER -> <<>>
         IN  here \o emitNodes(nodeList, k + 1)

\* processNodes, lines 1688-1704
RECURSIVE processNodesElse(_, _)
processNodesElse(out, nodeList) ==
    LET ifIdx == detectTopLevelIf(nodeList)
    IN  IF ifIdx # 0
        THEN processNodesElse([out EXCEPT !.topLevelGuards = Append(@, "a")],
                              nodeList[ifIdx].List)
        ELSE [out EXCEPT !.body = @ \o emitNodes(nodeList, 1)]

InitElse ==
    /\ config = HelmConfig
    /\ input \in [nodes : SeqsUpTo(ElseRootNodes, MaxElseRoot)]
    /\ result = NoResult
    /\ IdleEmit /\ IdleHelpers /\ IdleTrees /\ IdleJob

\* convertStructured, Phase 1: c.processNodes(root.Nodes)
ProcessRootElse ==
    /\ result = NoResult
    /\ result' = processNodesElse([topLevelGuards |-> <<>>, body |-> <<>>], input.nodes)
    /\ UNCHANGED <<config, input, nonExprVars>>

SpecElse == InitElse /\ [][ProcessRootElse]_vars

\* the texts of a node list, those of the if and else lists included
RECURSIVE TextsOf(_)
TextsOf(nodeList) ==
    IF nodeList = <<>> THEN {}
    ELSE LET n == Head(nodeList)
         IN  (IF n.kind = "text" THEN {n.text} ELSE {})
                 \cup TextsOf(n.List) \cup TextsOf(n.ElseList) \cup TextsOf(Tail(nodeList))

\* C29: no branch of the template is dropped: every text of the template,
\* the text of the else list of an if that was extracted as a top-level
\* guard included, is in the emitted body, the else text under the negated
\* condition.
C29_ElseKept ==
    result # NoResult =>
        /\ TextsOf(input.nodes) \subseteq Elems(result.body)
        /\ "e" \in TextsOf(input.nodes) => "if !a {" \in Elems(result.body)

(***************************************************************************)
(* SpecMerge: the helper declarations of a merged output.  Convert merges  *)
(* the results of the documents of one input (mergeConvertResults, then    *)
(* assembleSingleFile); ConvertChart writes helpers.cue from the results   *)
(* of the templates.  A document or template is known by the set of the    *)
(* helper names its body includes; the helper file defines x.              *)
(***************************************************************************)
MaxMerged == 3   \* documents of an input, templates of a chart

DefinedHelpers == {"x"}
IncludedNames == {"x", "u", "v"}

NoMerge == [api |-> "none", includes |-> <<>>, results |-> <<>>, declared |-> {},
            merged |-> FALSE]

\* convertStructured on one document: helperOrder is the tree set's helpers
\* (lines 379-388); handleInclude (938-945) records a name that is not among
\* them in undefinedHelpers; refs are the identifiers the body refers to
convertIncludes(names) ==
    [helperOrder |-> DefinedHelpers,
     undefinedHelpers |-> {n \in names : n \notin DefinedHelpers},
     refs |-> {helperToCUEName(n) : n \in names}]

\* mergeConvertResults, lines 684-690: the helper info of the first result
mergeHelperInfo(results) ==
    [helperOrder |-> results[1].helperOrder,
     undefinedHelpers |-> results[1].undefinedHelpers,
     refs |-> UNION {results[k].refs : k \in 1..Len(results)}]

\* assembleSingleFile 508-528 and writeHelpersCUE: a declaration for every
\* helper of helperOrder and for every undefined helper
declaredBy(r) == {helperToCUEName(n) : n \in r.helperOrder \cup r.undefinedHelpers}

InitMerge ==
    /\ job \in [api : {"convert", "chart"},
                includes : UNION {[1..k -> SUBSET IncludedNames] : k \in 1..MaxMerged},
                results : {<<>>}, declared : {{}}, merged : {FALSE}]
    /\ docs = <<>>
    /\ IdleEmit /\ IdleExpr /\ IdleHelpers /\ IdleTrees

\* the next document (Convert) or template (ConvertChart) is converted
MergeConvert ==
    /\ ~job.merged /\ Len(job.results) < Len(job.includes)
    /\ job' = [job EXCEPT
                  !.results = Append(@, convertIncludes(job.includes[Len(job.results) + 1]))]
    /\ UNCHANGED <<emitVars, exprVars, ph, treeVars, docs>>

\* Convert: assembleSingleFile on the only result, or on the merged results
MergeAssemble ==
    /\ job.api = "convert" /\ ~job.merged /\ Len(job.results) = Len(job.includes)
    /\ LET r == IF Len(job.results) = 1 THEN job.results[1] ELSE mergeHelperInfo(job.results)
       IN  job' = [job EXCEPT !.declared = declaredBy(r), !.merged = TRUE]
    /\ UNCHANGED <<emitVars, exprVars, ph, treeVars, docs>>

\* ConvertChart: writeHelpersCUE(outDir, pkgName, firstResult, ...)
MergeChart ==
    /\ job.api = "chart" /\ ~job.merged /\ Len(job.results) = Len(job.includes)
    /\ job' = [job EXCEPT !.declared = declaredBy(job.results[1]), !.merged = TRUE]
    /\ UNCHANGED <<emitVars, exprVars, ph, treeVars, docs>>

NextMerge == MergeConvert \/ MergeAssemble \/ MergeChart

SpecMerge == InitMerge /\ [][NextMerge]_vars

Merged == DOMAIN job = DOMAIN NoMerge /\ job.merged

\* C30: after several documents or templates are merged, every helper
\* identifier the body of any of them refers to, defined or not, has a
\* declaration in the merged output.
C30_EveryRefDeclared ==
    Merged => \A k \in 1..Len(job.results) : job.results[k].refs \subseteq job.declared

====
